---- MODULE Spec2Model ----
(***************************************************************************)
(* Wire protocol engine of the cole-mine smart-ring client:                *)
(*   - the command encoder (impl From<Command> for [u8; 16]) and the       *)
(*     channel router (Client::send) of src/client.rs;                     *)
(*   - the packet parser (PacketParser) of src/incoming_messages/mod.rs    *)
(*     with the heart-rate, stress, sport-detail and big-data state        *)
(*     machines and the sleep decoder of src/incoming_messages/.           *)
(* Byte sequences are 1-indexed here: Rust's packet[i] is packet[i + 1].   *)
(***************************************************************************)
EXTENDS Integers, Sequences, FiniteSets, TLC

VARIABLES
    command,          \* the Command handed to the last Client::send (None before)
    cmd_bytes,        \* the [u8; 16] that send serialized from it
    encode_panicked,  \* TRUE when the conversion panicked instead of returning
    tx,               \* frames written to the UART RX characteristic
    tx2,              \* frames written to the V2 command characteristic
    packets,          \* inbound frames the stream has handed to the parser
    channel,          \* the RawPacket variant of each of them: "Uart" or "V2"
    replies,          \* what handle_packet returned for each of them
    sport_detail,     \* MultiPacketStates.sport_detail
    heart_rate_state, \* MultiPacketStates.heart_rate_state
    stress_state,     \* MultiPacketStates.stress_state
    partial_big_data, \* MultiPacketStates.partial_big_data
    overflow_checks,  \* build profile: TRUE panics on integer overflow, FALSE wraps
    panicked,         \* the parser task has panicked
    try_from_value,   \* the slice or buffer handed to a decoder's try_from
    try_from_result,  \* what it returned (None before the call)
    rx,               \* Client.rx: None, or the subscribed reply stream
    subscriptions,    \* how many times ClientReceiver::connect_device subscribed
    client_call,      \* the last connect/disconnect/read_next and how it returned
    stream,           \* frames the merged notification stream holds ready
    poll_result,      \* what the last ClientReceiver::poll_next returned
    inner_pending,    \* whether the inner stream returned Pending in that call
    events,           \* the slice handed to Database::add_events (None before)
    database          \* the committed RingEvent rows

vars == <<command, cmd_bytes, encode_panicked, tx, tx2, packets, channel, replies,
          sport_detail, heart_rate_state, stress_state, partial_big_data,
          overflow_checks, panicked, try_from_value, try_from_result,
          rx, subscriptions, client_call, stream, poll_result, inner_pending,
          events, database>>

sendVars == <<command, cmd_bytes, encode_panicked, tx, tx2>>
parseVars == <<packets, channel, replies, sport_detail, heart_rate_state, stress_state,
               partial_big_data, overflow_checks, panicked>>
decodeVars == <<try_from_value, try_from_result>>
clientVars == <<rx, subscriptions, client_call>>
pollVars == <<stream, poll_result, inner_pending>>
dbVars == <<events, database>>

----------------------------------------------------------------------------
(* Bounds *)

MaxSends == 1
MaxRawLen == 18
MaxPackets == 2
MaxHrPackets == 4
MaxHrSize == 2
MaxSportPackets == 4
MaxSliceLen == 15
MaxStressPackets == 4
MaxStressTarget == 2
MaxV2Packets == 3
MaxShortPackets == 2
MaxShortLen == 3
MaxStagePairs == 2
MaxOxygenPairs == 2
MaxMixedPackets == 4
MaxSubscriptions == 6
MaxEvents == 2
MaxNotified == 3

----------------------------------------------------------------------------
(* Program constants (src/constants.rs) *)

CMD_SET_DATE_TIME == 1
CMD_BATTERY == 3
CMD_POWER_OFF == 8
CMD_BLINK == 16
CMD_SYNC_HEART_RATE == 21
CMD_AUTO_HR_PREF == 22
CMD_SYNC_STRESS == 55
CMD_SYNC_ACTIVITY == 67
CMD_MANUAL_HEART_RATE == 105
CMD_STOP_REAL_TIME == 106
CMD_NOTIFICATION == 115
CMD_BIG_DATA_V2 == 188
BIG_DATA_TYPE_SLEEP == 39
BIG_DATA_TYPE_SPO2 == 42
SLEEP_TYPE_LIGHT == 2
SLEEP_TYPE_DEEP == 3
SLEEP_TYPE_REM == 4
SLEEP_TYPE_AWAKE == 5
HoursPerDay == 24

----------------------------------------------------------------------------
(* Byte and slice helpers *)

None == [tag |-> "None"]

Zeroes(n) == [i \in 1..n |-> 0]

\* Rust's s[lo..hi] (0-based, hi exclusive)
Slice(s, lo, hi) == SubSeq(s, lo + 1, hi)

\* ret[lo..lo + len(src)].copy_from_slice(src)
CopyFromSlice(ret, lo, src) ==
    [i \in 1..Len(ret) |-> IF i > lo /\ i <= lo + Len(src) THEN src[i - lo] ELSE ret[i]]

\* Vec::resize(n, v): truncate or pad with v
Resize(s, n, v) ==
    IF Len(s) >= n THEN SubSeq(s, 1, n) ELSE s \o [i \in 1..(n - Len(s)) |-> v]

RECURSIVE SumBytes(_)
SumBytes(s) == IF s = <<>> THEN 0 ELSE s[1] + SumBytes(Tail(s))

checksum_NoTrunc(packet) == SumBytes(packet)

checksum(packet) == SumBytes(packet) % 256

\* u32::to_le_bytes
U32ToLeBytes(n) ==
    << n % 256, (n \div 256) % 256, (n \div 65536) % 256, (n \div 16777216) % 256 >>

\* u32::from_le_bytes
U32FromLeBytes(b) == b[1] + 256 * b[2] + 65536 * b[3] + 16777216 * b[4]

\* u16::from_le_bytes
U16FromLeBytes(b) == b[1] + 256 * b[2]

Abs(n) == IF n < 0 THEN 0 - n ELSE n

----------------------------------------------------------------------------
(* Command encoder: impl From<Command> for [u8; 16]  (src/client.rs)        *)

\* ret[2] of SetHeartRateSettings
EnabledByte_Swapped(enabled) == IF enabled THEN 2 ELSE 1

EnabledByte(enabled) == IF enabled THEN 1 ELSE 2

\* (when.year().unsigned_abs() % 2000) as u8
TwoDigitYear(when) == ((Abs(when.year) % 2000) % 256)

\* Command::Raw: bytes.resize(16, 0); ret[0..15].copy_from_slice(&bytes[0..15])
RawBody_Copy16(bytes) == CopyFromSlice(Zeroes(16), 0, Resize(bytes, 16, 0))

RawBody(bytes) == CopyFromSlice(Zeroes(16), 0, Slice(Resize(bytes, 16, 0), 0, 15))

\* the slice bytes[0..15] is out of range: the conversion panics
RawPanics(bytes) == Len(Resize(bytes, 16, 0)) < 15

\* the match on cmd: the buffer before the checksum is written
CommandBody(cmd) ==
    LET ret == Zeroes(16) IN
    CASE cmd.tag = "ReadSportDetail" ->
            CopyFromSlice(ret, 0, <<67, cmd.day_offset, 15, 0, 95, 1>>)
      [] cmd.tag = "ReadHeartRate" ->
            CopyFromSlice([ret EXCEPT ![1] = 21], 1, U32ToLeBytes(cmd.timestamp))
      [] cmd.tag = "ReadStress" ->
            [ret EXCEPT ![1] = 55, ![2] = cmd.day_offset]
      [] cmd.tag = "GetHeartRateSettings" ->
            CopyFromSlice(ret, 0, <<22, 1>>)
      [] cmd.tag = "SetHeartRateSettings" ->
            [ret EXCEPT ![1] = 22, ![2] = 2, ![3] = EnabledByte(cmd.enabled),
                        ![4] = cmd.interval]
      [] cmd.tag = "StartRealTimeHeartRate" -> CopyFromSlice(ret, 0, <<105, 1>>)
      [] cmd.tag = "ContinueRealTimeHeartRate" -> CopyFromSlice(ret, 0, <<30, 3>>)
      [] cmd.tag = "StopRealTimeHeartRate" -> CopyFromSlice(ret, 0, <<106, 1>>)
      [] cmd.tag = "StartSpo2" -> CopyFromSlice(ret, 0, <<105, 3, 37>>)
      [] cmd.tag = "StopSpo2" -> CopyFromSlice(ret, 0, <<106, 3>>)
      [] cmd.tag = "Reboot" -> CopyFromSlice(ret, 0, <<8, 1>>)
      [] cmd.tag = "SetTime" ->
            CopyFromSlice(ret, 0, <<1, TwoDigitYear(cmd.when), cmd.when.month,
                                    cmd.when.day, cmd.when.hour, cmd.when.minute,
                                    cmd.when.second, cmd.language>>)
      [] cmd.tag = "BlinkTwice" -> [ret EXCEPT ![1] = 16]
      [] cmd.tag = "BatteryInfo" -> [ret EXCEPT ![1] = 3]
      [] cmd.tag = "Raw" ->
            IF RawPanics(cmd.bytes) THEN ret ELSE RawBody(cmd.bytes)

\* fn from(cmd: Command) -> [u8; 16]
from(cmd) ==
    LET ret == CommandBody(cmd) IN
    [panic |-> cmd.tag = "Raw" /\ RawPanics(cmd.bytes),
     bytes |-> [ret EXCEPT ![16] = checksum(ret)]]

----------------------------------------------------------------------------
(* Inputs of Client::send *)

DayOffsets == {0, 1, 255}
Timestamps == {0, 1, 16909060, 1723248000, 2147483647}
Intervals == {0, 30, 255}
Languages == {0, 1}

Whens ==
    { [year |-> 1970, month |-> 1,  day |-> 1,  hour |-> 0,  minute |-> 0,  second |-> 0],
      [year |-> 1999, month |-> 12, day |-> 31, hour |-> 23, minute |-> 59, second |-> 59],
      [year |-> 2000, month |-> 1,  day |-> 1,  hour |-> 0,  minute |-> 0,  second |-> 0],
      [year |-> 2024, month |-> 10, day |-> 15, hour |-> 13, minute |-> 45, second |-> 7],
      [year |-> 2099, month |-> 12, day |-> 31, hour |-> 23, minute |-> 59, second |-> 59],
      [year |-> 2100, month |-> 2,  day |-> 28, hour |-> 12, minute |-> 0,  second |-> 30] }

\* a byte vector of length n: first byte b0, then a position-dependent pattern;
\* the bytes at index 15 and beyond depend on t
RawVec(n, b0, t) ==
    [i \in 1..n |-> IF i = 1 THEN b0
                    ELSE IF i <= 15 THEN (b0 + 7 * i) % 256
                    ELSE (t + i) % 256]

RawFirstBytes == {0, 3, 115, 188, 250}
RawTails == {0, 200}

RawVecs == { RawVec(n, b0, t) : n \in 0..MaxRawLen, b0 \in RawFirstBytes, t \in RawTails }

Commands ==
         { [tag |-> "ReadSportDetail", day_offset |-> d] : d \in DayOffsets }
    \cup { [tag |-> "ReadHeartRate", timestamp |-> ts] : ts \in Timestamps }
    \cup { [tag |-> "ReadStress", day_offset |-> d] : d \in DayOffsets }
    \cup { [tag |-> "SetHeartRateSettings", enabled |-> en, interval |-> iv] :
                en \in BOOLEAN, iv \in Intervals }
    \cup { [tag |-> k] : k \in {"GetHeartRateSettings", "StartRealTimeHeartRate",
                                  "ContinueRealTimeHeartRate", "StopRealTimeHeartRate",
                                  "StartSpo2", "StopSpo2", "Reboot", "BlinkTwice",
                                  "BatteryInfo"} }
    \cup { [tag |-> "SetTime", when |-> w, language |-> l] : w \in Whens, l \in Languages }
    \cup { [tag |-> "Raw", bytes |-> b] : b \in RawVecs }

----------------------------------------------------------------------------
(* Client::send *)

\* cmd_bytes[0] == CMD_BIG_DATA_V2 selects tx2
WritesToV2(bytes) == bytes[1] = CMD_BIG_DATA_V2

Send(cmd) ==
    /\ Len(tx) + Len(tx2) < MaxSends
    /\ ~encode_panicked
    /\ LET r == from(cmd) IN
        /\ command' = cmd
        /\ encode_panicked' = r.panic
        /\ cmd_bytes' = r.bytes
        /\ IF r.panic
              THEN UNCHANGED <<tx, tx2>>
              ELSE IF WritesToV2(r.bytes)
                     THEN tx2' = Append(tx2, r.bytes) /\ tx' = tx
                     ELSE tx' = Append(tx, r.bytes) /\ tx2' = tx2
    /\ UNCHANGED parseVars
    /\ UNCHANGED decodeVars
    /\ UNCHANGED clientVars
    /\ UNCHANGED pollVars
    /\ UNCHANGED dbVars

\* Client::connect: ClientReceiver::connect_device subscribes to the notify
\* characteristics, or a BLE call fails and `?` returns the error
Connect ==
    /\ subscriptions < MaxSubscriptions
    /\ \E ok \in BOOLEAN :
          IF ok
            THEN /\ rx' = [tag |-> "Some", subscription |-> subscriptions + 1]
                 /\ subscriptions' = subscriptions + 1
                 /\ client_call' = [op |-> "connect", result |-> "Ok"]
            ELSE /\ UNCHANGED <<rx, subscriptions>>
                 /\ client_call' = [op |-> "connect", result |-> "Err"]
    /\ UNCHANGED sendVars
    /\ UNCHANGED parseVars
    /\ UNCHANGED decodeVars
    /\ UNCHANGED pollVars
    /\ UNCHANGED dbVars

\* Client::disconnect: device.disconnect() and then rx = None, or the error
Disconnect ==
    /\ \E ok \in BOOLEAN :
          IF ok
            THEN /\ rx' = None
                 /\ client_call' = [op |-> "disconnect", result |-> "Ok"]
            ELSE /\ UNCHANGED rx
                 /\ client_call' = [op |-> "disconnect", result |-> "Err"]
    /\ UNCHANGED subscriptions
    /\ UNCHANGED sendVars
    /\ UNCHANGED parseVars
    /\ UNCHANGED decodeVars
    /\ UNCHANGED pollVars
    /\ UNCHANGED dbVars

\* Client::read_next: connect first when rx is None, then await the next item
\* of the reply stream, a reply or its end
ReadNext ==
    /\ rx = None => subscriptions < MaxSubscriptions
    /\ \E ok \in BOOLEAN, item \in {"Reply", "EndOfStream"} :
          IF rx = None /\ ~ok
            THEN /\ UNCHANGED <<rx, subscriptions>>
                 /\ client_call' = [op |-> "read_next", result |-> "Err"]
            ELSE /\ rx' = IF rx = None
                             THEN [tag |-> "Some", subscription |-> subscriptions + 1]
                             ELSE rx
                 /\ subscriptions' = IF rx = None THEN subscriptions + 1 ELSE subscriptions
                 /\ client_call' = [op |-> "read_next", result |-> item]
    /\ UNCHANGED sendVars
    /\ UNCHANGED parseVars
    /\ UNCHANGED decodeVars
    /\ UNCHANGED pollVars
    /\ UNCHANGED dbVars

----------------------------------------------------------------------------
(* Heart-rate state machine  (src/heart_rate.rs)                            *)

\* OffsetDateTime::from_unix_timestamp: dates are kept as Unix seconds
FromUnixTimestamp(ts) == [tag |-> "Date", unix |-> ts]

\* u8::saturating_sub
SaturatingSub(a, b) == IF a >= b THEN a - b ELSE 0

Err == [tag |-> "Err"]

\* the byte of the initial frame that carries the "no data" marker
NoDataByte_Size(value) == value[3]

NoDataByte(value) == value[2]

\* impl TryFrom<&[u8]> for HeartRateState
HeartRateState_try_from(value) ==
    IF NoDataByte(value) = 255
      THEN [tag |-> "Complete", rates |-> <<>>, date |-> FromUnixTimestamp(0), range |-> 0]
    ELSE IF Len(value) < 15 THEN Err
    ELSE IF value[2] # 0 THEN Err
    ELSE [tag |-> "Length", size |-> SaturatingSub(value[3], 1), range |-> value[4]]

\* HeartRateState::step_length
step_length(size, range, packet) ==
    IF packet[2] # 1 THEN Err
    ELSE [tag |-> "Recieving",
          range |-> range,
          date |-> FromUnixTimestamp(U32FromLeBytes(Slice(packet, 2, 6))),
          rates |-> Slice(packet, 6, 15),
          size |-> size]

\* HeartRateState::step_receiving
step_receiving(size, range, date, rates, packet) ==
    IF packet[2] = 0 THEN Err
    ELSE IF packet[2] = 1 THEN Err
    ELSE LET rates2 == rates \o Slice(packet, 2, 15) IN
         IF packet[2] = size
           THEN [tag |-> "Complete", range |-> range, rates |-> rates2, date |-> date]
           ELSE [tag |-> "Recieving", date |-> date, size |-> size, range |-> range,
                 rates |-> rates2]

\* HeartRateState::step: the new state, or Err
HeartRateState_step(self, packet) ==
    CASE self.tag = "Length" -> step_length(self.size, self.range, packet)
      [] self.tag = "Recieving" ->
            step_receiving(self.size, self.range, self.date, self.rates, packet)
      [] self.tag = "Complete" -> Err

----------------------------------------------------------------------------
(* Stress state machine  (src/incoming_messages/stress.rs)                  *)

Panic == [tag |-> "Panic"]

\* a u8 subtraction a - b that overflows panics when the build checks overflow
SubPanics(a, b) == a < b /\ overflow_checks

\* and wraps otherwise
WrappingSub(a, b) == (a - b + 256) % 256

\* StressState::new
StressState_new(packet) ==
    IF packet[1] # 55 THEN Err
    ELSE IF packet[2] = 255
      THEN [tag |-> "Complete", measurements |-> <<>>, minutes_appart |-> 0]
    ELSE IF packet[2] # 0 THEN Err
    ELSE IF SubPanics(packet[3], 1) THEN Panic
    ELSE [tag |-> "Length", length |-> WrappingSub(packet[3], 1),
          minutes_appart |-> packet[4]]

\* StressState::step: the new state, or Err
StressState_step(self, packet) ==
    IF packet[1] # 55 THEN Err
    ELSE CASE self.tag = "Length" ->
                IF packet[2] = 0
                  THEN [tag |-> "Complete", measurements |-> <<>>,
                        minutes_appart |-> self.minutes_appart]
                  ELSE [tag |-> "Receiving",
                        target_length |-> self.length,
                        measurements |-> Slice(packet, 3, Len(packet) - 1),
                        minutes_appart |-> self.minutes_appart]
           [] self.tag = "Receiving" ->
                IF packet[2] = 1
                  THEN [self EXCEPT !.measurements = @ \o Slice(packet, 3, Len(packet) - 1)]
                  ELSE LET measurements == self.measurements \o Slice(packet, 2, Len(packet) - 1) IN
                       IF self.target_length = packet[2]
                         THEN [tag |-> "Complete", measurements |-> measurements,
                               minutes_appart |-> self.minutes_appart]
                         ELSE [self EXCEPT !.measurements = measurements]
           [] self.tag = "Complete" -> Err

----------------------------------------------------------------------------
(* Sport-detail state machine  (src/incoming_messages/sport_detail.rs)      *)

\* bcd_to_decimal
bcd_to_decimal_Hex(b) == (((b \div 16) % 16) * 16) + (b % 16)

bcd_to_decimal(b) == (((b \div 16) % 16) * 10) + (b % 16)

\* impl TryFrom<&[u8]> for SportDetail
SportDetail_try_from(value) ==
    IF Len(value) < 12 THEN Err
    ELSE [tag |-> "SportDetail",
          year |-> bcd_to_decimal(value[1]) + 2000,
          month |-> bcd_to_decimal(value[2]),
          day |-> bcd_to_decimal(value[3]),
          time_index |-> value[4],
          calories |-> U16FromLeBytes(Slice(value, 6, 8)),
          steps |-> U16FromLeBytes(Slice(value, 8, 10)),
          distance |-> U16FromLeBytes(Slice(value, 10, 12))]

\* SportDetail::apply_new_calories: self.calories *= 10 on a u16
apply_new_calories(self) ==
    IF self.calories * 10 <= 65535 THEN [self EXCEPT !.calories = @ * 10]
    ELSE IF overflow_checks THEN Panic
    ELSE [self EXCEPT !.calories = (@ * 10) % 65536]

\* SportDetailState::new
SportDetailState_new(packet) ==
    IF packet[1] # 67 THEN Err
    ELSE IF packet[2] = 255 THEN [tag |-> "Complete", packets |-> <<>>]
    ELSE IF packet[2] = 240 THEN [tag |-> "Initial", new_cal_proto |-> TRUE]
    ELSE LET rec == SportDetail_try_from(Slice(packet, 1, Len(packet) - 1)) IN
         IF rec = Err THEN Err
         ELSE [tag |-> "Recieving", new_cal_proto |-> FALSE, packets |-> <<rec>>]

\* the record a step decodes from packet[1..], scaled under the new protocol
StepRecord(new_cal_proto, packet) ==
    LET rec == SportDetail_try_from(Slice(packet, 1, Len(packet))) IN
    IF rec = Err THEN Err
    ELSE IF new_cal_proto THEN apply_new_calories(rec) ELSE rec

\* SportDetailState::step: the new state, Err, or Panic
SportDetailState_step(self, packet) ==
    IF self.tag = "Complete" THEN Err
    ELSE IF SubPanics(packet[7], 1) THEN Panic
    ELSE LET done == packet[6] = WrappingSub(packet[7], 1)
             rec == StepRecord(self.new_cal_proto, packet)
             prior == IF self.tag = "Initial" THEN <<>> ELSE self.packets
         IN IF rec = Err THEN Err
            ELSE IF rec = Panic THEN Panic
            ELSE IF done
              THEN [tag |-> "Complete", packets |-> Append(prior, rec)]
              ELSE [tag |-> "Recieving", new_cal_proto |-> self.new_cal_proto,
                    packets |-> Append(prior, rec)]

----------------------------------------------------------------------------
(* Big-data reassembler and sleep decoder  (src/incoming_messages/big_data.rs) *)

\* BigDataState::step: packet.len() == *target_length
ReachedTarget_AtLeast(len, target_length) == len >= target_length

ReachedTarget(len, target_length) == len = target_length

\* BigDataState::step: the new state, or Err
BigDataState_step(self, bytes) ==
    IF self.tag # "Partial" THEN Err
    ELSE LET packet == [self.packet EXCEPT !.data = @ \o bytes] IN
         IF ReachedTarget(Len(packet.data), self.target_length)
           THEN [tag |-> "Complete", packet |-> packet]
           ELSE [tag |-> "Partial", target_length |-> self.target_length,
                 packet |-> packet]

\* BigDataState::new: the new state, Err, or Panic when an index or a slice
\* reaches past the end of the frame
BigDataState_new(bytes) ==
    IF Len(bytes) < 1 THEN Panic
    ELSE IF bytes[1] # CMD_BIG_DATA_V2 THEN Err
    ELSE IF Len(bytes) < 4 THEN Panic
    ELSE IF bytes[2] \notin {BIG_DATA_TYPE_SLEEP, BIG_DATA_TYPE_SPO2} THEN Err
    ELSE IF Len(bytes) < 6 THEN Panic
    ELSE BigDataState_step(
            [tag |-> "Partial",
             target_length |-> U16FromLeBytes(Slice(bytes, 2, 4)),
             packet |-> [tag |-> IF bytes[2] = BIG_DATA_TYPE_SLEEP THEN "Sleep" ELSE "Oxygen",
                         data |-> <<>>]],
            Slice(bytes, 6, Len(bytes)))

\* the SleepStage variant of a stage code
SleepStage_LightDeepSwapped(stage, minutes) ==
    [tag |-> CASE stage = SLEEP_TYPE_LIGHT -> "Deep"
               [] stage = SLEEP_TYPE_DEEP -> "Light"
               [] stage = SLEEP_TYPE_REM -> "Rem"
               [] stage = SLEEP_TYPE_AWAKE -> "Awake",
     minutes |-> minutes]

SleepStage(stage, minutes) ==
    [tag |-> CASE stage = SLEEP_TYPE_LIGHT -> "Light"
               [] stage = SLEEP_TYPE_DEEP -> "Deep"
               [] stage = SLEEP_TYPE_REM -> "Rem"
               [] stage = SLEEP_TYPE_AWAKE -> "Awake",
     minutes |-> minutes]

\* the while loop over the (stage, minutes) pairs of one day block: the stages
\* and the rest of the iterator, Err, or Panic
RECURSIVE SleepStages(_, _, _)
SleepStages(iter, remaining_bytes, stages) ==
    IF remaining_bytes = 0 THEN [tag |-> "Ok", stages |-> stages, iter |-> iter]
    ELSE IF Len(iter) < 2 THEN Err
    ELSE IF SubPanics(remaining_bytes, 2) THEN Panic
    ELSE LET rest == SubSeq(iter, 3, Len(iter))
             left == WrappingSub(remaining_bytes, 2)
         IN IF iter[1] = 0 THEN SleepStages(rest, left, stages)
            ELSE IF iter[1] \in {SLEEP_TYPE_LIGHT, SLEEP_TYPE_DEEP, SLEEP_TYPE_REM,
                                 SLEEP_TYPE_AWAKE}
              THEN SleepStages(rest, left, Append(stages, SleepStage(iter[1], iter[2])))
            ELSE Err

\* day.midnight() for day = today - Duration::days(days_ago - 1), in minutes
\* from the midnight that begins today
DayMidnight(days_ago) == (0 - (days_ago - 1)) * 1440

SessionStart_SameDay(days_ago, start, end) ==
    IF start > end THEN DayMidnight(days_ago) - (1440 - start)
    ELSE DayMidnight(days_ago) + start

\* the session's start: day.midnight() - (1440 - start) minutes when
\* start > end, else day.previous_day().midnight() + start minutes
SessionStart(days_ago, start, end) ==
    IF start > end THEN DayMidnight(days_ago) - (1440 - start)
    ELSE DayMidnight(days_ago) - 1440 + start

\* the body of `for i in 1..days`: date-times are minutes from today's midnight.
\* days_ago == 0 underflows days_ago as u64 - 1 and start > max(end, 1440)
\* underflows 1440 - start as u64: a panic when overflow is checked, and
\* otherwise a wrapped Duration that no date can be moved by, a panic as well.
RECURSIVE SleepSessions(_, _, _, _)
SleepSessions(iter, i, days, sessions) ==
    IF i >= days THEN [tag |-> "SleepData", sessions |-> sessions]
    ELSE IF Len(iter) < 1 THEN Err
    ELSE IF iter[1] = 0 THEN Panic
    ELSE IF Len(iter) < 6 THEN Err
    ELSE LET days_ago == iter[1]
             day_bytes == iter[2]
             start == U16FromLeBytes(SubSeq(iter, 3, 4))
             end == U16FromLeBytes(SubSeq(iter, 5, 6))
             loop == SleepStages(SubSeq(iter, 7, Len(iter)), WrappingSub(day_bytes, 4), <<>>)
         IN IF start > end /\ start > 1440 THEN Panic
            ELSE IF SubPanics(day_bytes, 4) THEN Panic
            ELSE IF loop = Err THEN Err
            ELSE IF loop = Panic THEN Panic
            ELSE SleepSessions(loop.iter, i + 1, days,
                    Append(sessions,
                       [start |-> SessionStart(days_ago, start, end),
                        end |-> DayMidnight(days_ago) + end,
                        stages |-> loop.stages]))

\* impl TryFrom<BigDataPacket> for SleepData
SleepData_try_from(value) ==
    IF value.tag # "Sleep" THEN Err
    ELSE IF Len(value.data) < 1 THEN Panic
    ELSE SleepSessions(Tail(value.data), 1, value.data[1], <<>>)

\* the body of `for j in 0..24`: one measurement per (min, max) pair, `when`
\* in minutes from today's midnight; the loop is left when the buffer is used up
RECURSIVE OxygenHours(_, _, _, _)
OxygenHours(iter, day, j, samples) ==
    IF j >= HoursPerDay THEN [tag |-> "Ok", samples |-> samples, iter |-> iter]
    ELSE IF Len(iter) < 2 THEN Err
    ELSE LET pushed == Append(samples, [min |-> iter[1], max |-> iter[2],
                                        when |-> day + 60 * j])
             rest == SubSeq(iter, 3, Len(iter))
         IN IF rest = <<>> THEN [tag |-> "Ok", samples |-> pushed, iter |-> rest]
            ELSE OxygenHours(rest, day, j + 1, pushed)

\* the body of `for i in 0..day_in_packet`
RECURSIVE OxygenDays(_, _, _, _)
OxygenDays(iter, i, day_in_packet, samples) ==
    IF i >= day_in_packet THEN [tag |-> "OxygenData", samples |-> samples]
    ELSE IF Len(iter) < 1 THEN Err
    ELSE LET loop == OxygenHours(Tail(iter), (0 - iter[1]) * 1440, 0, samples)
         IN IF loop = Err THEN Err
            ELSE OxygenDays(loop.iter, i + 1, day_in_packet, loop.samples)

\* impl TryFrom<BigDataPacket> for OxygenData
OxygenData_try_from(value) ==
    IF value.tag # "Oxygen" THEN Err
    ELSE IF Len(value.data) < 1 THEN Err
    ELSE OxygenDays(Tail(value.data), 0, value.data[1], <<>>)

----------------------------------------------------------------------------
(* Packet parser  (src/incoming_messages/mod.rs)                            *)

\* what a handler hands back: the family slot, the reply, whether it panicked
Outcome(slot, reply) == [slot |-> slot, reply |-> reply, panic |-> FALSE]

Panicked(slot) == [slot |-> slot, reply |-> None, panic |-> TRUE]

\* PacketParser::handle_real_time
handle_real_time(packet) ==
    [tag |-> "RealTimeData",
     ev |-> IF packet[3] # 0 THEN [tag |-> "Error", value |-> packet[3]]
            ELSE IF packet[2] = 1 THEN [tag |-> "HeartRate", value |-> packet[4]]
            ELSE [tag |-> "Oxygen", value |-> packet[4]]]

\* CommandReply::HeartRate(HeartRate { range, rates, date })
HeartRateReply(s) ==
    [tag |-> "HeartRate", range |-> s.range, rates |-> s.rates, date |-> s.date]

\* PacketParser::handle_heart_rate; an Err return ends as handle_packet's None
handle_heart_rate(slot, packet) ==
    IF slot # None
      THEN LET s == HeartRateState_step(slot, Slice(packet, 0, Len(packet) - 1)) IN
           IF s = Err THEN Outcome(None, None)
           ELSE IF s.tag = "Complete" THEN Outcome(None, HeartRateReply(s))
           ELSE Outcome(s, None)
      ELSE LET s == HeartRateState_try_from(packet) IN
           IF s = Err THEN Outcome(None, None)
           ELSE IF s.tag = "Complete" THEN Outcome(None, HeartRateReply(s))
           ELSE Outcome(s, None)

\* PacketParser::handle_stress
handle_stress(slot, packet) ==
    IF slot # None
      THEN LET ss == StressState_step(slot, packet) IN
           IF ss = Err THEN Outcome(None, None)
           ELSE IF ss.tag = "Complete"
             THEN Outcome(None, [tag |-> "Stress",
                                 time_interval_sec |-> ss.minutes_appart,
                                 measurements |-> ss.measurements])
           ELSE Outcome(ss, None)
      ELSE LET ss == StressState_new(packet) IN
           IF ss = Panic THEN Panicked(None)
           ELSE IF ss = Err THEN Outcome(None, None)
           ELSE Outcome(ss, None)

\* PacketParser::handle_sport_detail
handle_sport_detail(slot, packet) ==
    IF slot # None
      THEN LET ss == SportDetailState_step(slot, packet) IN
           IF ss = Panic THEN Panicked(None)
           ELSE IF ss = Err THEN Outcome(None, None)
           ELSE IF ss.tag = "Complete"
             THEN Outcome(None, [tag |-> "SportDetail", packets |-> ss.packets])
           ELSE Outcome(ss, None)
      ELSE LET ss == SportDetailState_new(packet) IN
           IF ss = Err THEN Outcome(None, None) ELSE Outcome(ss, None)

\* the guard of the CMD_AUTO_HR_PREF arm
AutoHrPrefGuard_NonZero(packet) == packet[3] # 0

AutoHrPrefGuard(packet) == packet[3] = 1 \/ packet[3] = 2

\* the arms of handle_uart that build their reply from the frame alone
SingleFrameReply(packet) ==
    CASE packet[1] = CMD_SET_DATE_TIME -> [tag |-> "SetTime"]
      [] packet[1] = CMD_BATTERY ->
            [tag |-> "BatteryInfo", level |-> packet[2], charging |-> packet[3] > 0]
      [] packet[1] = CMD_POWER_OFF -> [tag |-> "Reboot"]
      [] packet[1] = CMD_BLINK -> [tag |-> "BlinkTwice"]
      [] packet[1] = CMD_AUTO_HR_PREF /\ AutoHrPrefGuard(packet) ->
            [tag |-> "HeartRateSettings", enabled |-> packet[3] = 1,
             interval |-> packet[4]]
      [] packet[1] = CMD_MANUAL_HEART_RATE -> handle_real_time(packet)
      [] packet[1] = CMD_STOP_REAL_TIME -> [tag |-> "StopRealTime"]
      [] OTHER -> [tag |-> "Unknown", bytes |-> packet]

\* PacketParser::handle_uart over the three UART slots
handle_uart_StressDropsHeartRate(sd, hr, st, packet) ==
    CASE packet[1] = CMD_SYNC_HEART_RATE ->
            LET o == handle_heart_rate(hr, packet) IN
            [sport_detail |-> sd, heart_rate_state |-> o.slot, stress_state |-> st,
             reply |-> o.reply, panic |-> o.panic]
      [] packet[1] = CMD_SYNC_STRESS ->
            LET o == handle_stress(st, packet) IN
            [sport_detail |-> sd, heart_rate_state |-> None, stress_state |-> o.slot,
             reply |-> o.reply, panic |-> o.panic]
      [] packet[1] = CMD_SYNC_ACTIVITY ->
            LET o == handle_sport_detail(sd, packet) IN
            [sport_detail |-> o.slot, heart_rate_state |-> hr, stress_state |-> st,
             reply |-> o.reply, panic |-> o.panic]
      [] OTHER ->
            [sport_detail |-> sd, heart_rate_state |-> hr, stress_state |-> st,
             reply |-> SingleFrameReply(packet), panic |-> FALSE]

handle_uart_SingleFrameResets(sd, hr, st, packet) ==
    CASE packet[1] = CMD_SYNC_HEART_RATE ->
            LET o == handle_heart_rate(hr, packet) IN
            [sport_detail |-> sd, heart_rate_state |-> o.slot, stress_state |-> st,
             reply |-> o.reply, panic |-> o.panic]
      [] packet[1] = CMD_SYNC_STRESS ->
            LET o == handle_stress(st, packet) IN
            [sport_detail |-> sd, heart_rate_state |-> hr, stress_state |-> o.slot,
             reply |-> o.reply, panic |-> o.panic]
      [] packet[1] = CMD_SYNC_ACTIVITY ->
            LET o == handle_sport_detail(sd, packet) IN
            [sport_detail |-> o.slot, heart_rate_state |-> hr, stress_state |-> st,
             reply |-> o.reply, panic |-> o.panic]
      [] OTHER ->
            [sport_detail |-> None, heart_rate_state |-> hr, stress_state |-> st,
             reply |-> SingleFrameReply(packet), panic |-> FALSE]

handle_uart(sd, hr, st, packet) ==
    CASE packet[1] = CMD_SYNC_HEART_RATE ->
            LET o == handle_heart_rate(hr, packet) IN
            [sport_detail |-> sd, heart_rate_state |-> o.slot, stress_state |-> st,
             reply |-> o.reply, panic |-> o.panic]
      [] packet[1] = CMD_SYNC_STRESS ->
            LET o == handle_stress(st, packet) IN
            [sport_detail |-> sd, heart_rate_state |-> hr, stress_state |-> o.slot,
             reply |-> o.reply, panic |-> o.panic]
      [] packet[1] = CMD_SYNC_ACTIVITY ->
            LET o == handle_sport_detail(sd, packet) IN
            [sport_detail |-> o.slot, heart_rate_state |-> hr, stress_state |-> st,
             reply |-> o.reply, panic |-> o.panic]
      [] OTHER ->
            [sport_detail |-> sd, heart_rate_state |-> hr, stress_state |-> st,
             reply |-> SingleFrameReply(packet), panic |-> FALSE]

\* handle_uart reads packet[i], or slices packet[a..b], past the end of the
\* frame: the index expressions of each arm and of the state machine it calls,
\* in the order the code reaches them
IndexPanics(sd, hr, st, packet) ==
    LET n == Len(packet)
        heart_rate ==
            IF hr = None THEN n < 2
            ELSE IF hr.tag = "Length" THEN n < 3 \/ (packet[2] = 1 /\ n < 16)
            ELSE IF hr.tag = "Recieving" THEN n < 3 \/ (packet[2] \notin {0, 1} /\ n < 16)
            ELSE FALSE
        stress ==
            IF st = None THEN n < 2 \/ (packet[2] = 0 /\ n < 4)
            ELSE IF st.tag = "Length" THEN n < 2 \/ (packet[2] # 0 /\ n < 4)
            ELSE IF st.tag = "Receiving"
              THEN n < 2 \/ (packet[2] = 1 /\ n < 4) \/ (packet[2] # 1 /\ n < 3)
            ELSE FALSE
        sport ==
            IF sd = None THEN n < 2
            ELSE IF sd.tag \in {"Initial", "Recieving"} THEN n < 7
            ELSE FALSE
    IN IF n < 1 THEN TRUE
       ELSE CASE packet[1] = CMD_BATTERY -> n < 3
              [] packet[1] = CMD_SYNC_HEART_RATE -> heart_rate
              [] packet[1] = CMD_AUTO_HR_PREF -> n < 3 \/ (AutoHrPrefGuard(packet) /\ n < 4)
              [] packet[1] = CMD_SYNC_STRESS -> stress
              [] packet[1] = CMD_SYNC_ACTIVITY -> sport
              [] packet[1] = CMD_MANUAL_HEART_RATE -> n < 3 \/ (packet[3] = 0 /\ n < 4)
              [] OTHER -> FALSE

\* PacketParser::handle_packet on RawPacket::Uart(packet)
handle_packet(packet) ==
    LET r == IF IndexPanics(sport_detail, heart_rate_state, stress_state, packet)
               THEN [sport_detail |-> sport_detail, heart_rate_state |-> heart_rate_state,
                     stress_state |-> stress_state, reply |-> None, panic |-> TRUE]
               ELSE handle_uart(sport_detail, heart_rate_state, stress_state, packet)
    IN
    /\ ~panicked
    /\ packets' = Append(packets, packet)
    /\ channel' = Append(channel, "Uart")
    /\ replies' = Append(replies, r.reply)
    /\ sport_detail' = r.sport_detail
    /\ heart_rate_state' = r.heart_rate_state
    /\ stress_state' = r.stress_state
    /\ panicked' = r.panic
    /\ UNCHANGED partial_big_data
    /\ UNCHANGED overflow_checks
    /\ UNCHANGED sendVars
    /\ UNCHANGED decodeVars
    /\ UNCHANGED clientVars
    /\ UNCHANGED dbVars

\* PacketParser::check_for_complete_big_data on the slot handle_v2 left
check_for_complete_big_data(slot) ==
    IF slot = None \/ slot.tag # "Complete" THEN Outcome(slot, None)
    ELSE IF Len(slot.packet.data) < 2 THEN Outcome(None, None)
    ELSE LET kind == slot.packet.data[2] IN
         IF kind = BIG_DATA_TYPE_SLEEP
           THEN LET sleep_data == SleepData_try_from(slot.packet) IN
                IF sleep_data = Panic THEN Panicked(None)
                ELSE IF sleep_data = Err THEN Outcome(None, None)
                ELSE Outcome(None, [tag |-> "Sleep", data |-> sleep_data])
         ELSE IF kind = BIG_DATA_TYPE_SPO2
           THEN Outcome(None, [tag |-> "Unknown", bytes |-> slot.packet.data])
         ELSE Outcome(None, None)

\* PacketParser::handle_v2; an Err return ends as handle_packet's None
handle_v2(slot, packet) ==
    IF slot # None
      THEN LET s == BigDataState_step(slot, packet) IN
           IF s = Err THEN Outcome(slot, None) ELSE check_for_complete_big_data(s)
      ELSE LET s == BigDataState_new(packet) IN
           IF s = Panic THEN Panicked(None)
           ELSE IF s = Err THEN Outcome(None, None)
           ELSE check_for_complete_big_data(s)

\* PacketParser::handle_packet on RawPacket::V2(packet)
handle_packet_v2(packet) ==
    LET r == handle_v2(partial_big_data, packet) IN
    /\ ~panicked
    /\ packets' = Append(packets, packet)
    /\ channel' = Append(channel, "V2")
    /\ replies' = Append(replies, r.reply)
    /\ partial_big_data' = r.slot
    /\ panicked' = r.panic
    /\ UNCHANGED <<sport_detail, heart_rate_state, stress_state>>
    /\ UNCHANGED overflow_checks
    /\ UNCHANGED sendVars
    /\ UNCHANGED decodeVars
    /\ UNCHANGED clientVars
    /\ UNCHANGED dbVars

----------------------------------------------------------------------------
(* Inbound frames *)

\* tests::make_packet: pad to 16 bytes and write the checksum into byte 15
make_packet(bytes) ==
    LET ret == Resize(bytes, 16, 0) IN [ret EXCEPT ![16] = checksum(ret)]

\* n payload bytes, each telling its position: f + 1, f + 2, ...
Payload(f, n) == [i \in 1..n |-> f + i]

SimpleFrames == { make_packet(<<op>>) : op \in {CMD_SET_DATE_TIME, CMD_POWER_OFF,
                                                  CMD_BLINK, CMD_STOP_REAL_TIME} }

BatteryFrames == { make_packet(<<CMD_BATTERY, level, b2>>) : level \in {1, 100}, b2 \in {0, 1, 2} }

HrPrefFrames == { make_packet(<<CMD_AUTO_HR_PREF, 0, b2, iv>>) : b2 \in {0, 1, 2, 3}, iv \in {0, 127} }

RealTimeFrames ==
    { make_packet(<<CMD_MANUAL_HEART_RATE, mode, status, 72>>) :
        mode \in {0, 1, 2, 3}, status \in {0, 1} }

UnknownFrames == { make_packet(<<op, 1, 2, 3>>) : op \in {0, 2, CMD_NOTIFICATION,
                                                            CMD_BIG_DATA_V2, 255} }

HeartFrames ==
    { make_packet(<<CMD_SYNC_HEART_RATE, b1, b2, 5>> \o Payload(20, 11)) :
        b1 \in {0, 1, 2, 255}, b2 \in {0, 3, 255} }

StressFrames ==
    { make_packet(<<CMD_SYNC_STRESS, b1, b2, 30>> \o Payload(40, 11)) :
        b1 \in {0, 1, 255}, b2 \in {0, 1, 2} }

SportFrames ==
    { make_packet(<<CMD_SYNC_ACTIVITY, 255>>),
      make_packet(<<CMD_SYNC_ACTIVITY, 240, 1, 1>>),
      make_packet(<<CMD_SYNC_ACTIVITY, 36, 16, 21, 92, 0, 1, 121, 0, 21, 0, 16, 0>>),
      make_packet(<<CMD_SYNC_ACTIVITY, 36, 16, 21, 93, 0, 0, 121, 0, 21, 0, 16, 0>>),
      make_packet(<<CMD_SYNC_ACTIVITY, 36, 16, 21, 94, 0, 2, 255, 255, 21, 0, 16, 0>>) }

UartFrames ==
    SimpleFrames \cup BatteryFrames \cup HrPrefFrames \cup RealTimeFrames
    \cup UnknownFrames \cup HeartFrames \cup StressFrames \cup SportFrames

\* the frames of heart-rate transactions: initial frames announcing n follow-on
\* frames, data frames with their sequence number, the "no data" frames, and one
\* frame of another family
HrInitFrames == { make_packet(<<CMD_SYNC_HEART_RATE, 0, n + 1, 5>>) : n \in 1..MaxHrSize }

HrDataFrames ==
    { make_packet(<<CMD_SYNC_HEART_RATE, seq>> \o Payload(10 * seq, 13)) :
        seq \in 1..(MaxHrSize + 1) }

HrNoDataFrames == { make_packet(<<CMD_SYNC_HEART_RATE, 255>>),
                    make_packet(<<CMD_SYNC_HEART_RATE, 0, 255, 5>>) }

HrFrames == HrInitFrames \cup HrDataFrames \cup HrNoDataFrames
            \cup { make_packet(<<CMD_BATTERY, 50, 1>>) }

----------------------------------------------------------------------------
(* Specifications *)

Init ==
    /\ command = None
    /\ cmd_bytes = <<>>
    /\ encode_panicked = FALSE
    /\ tx = <<>>
    /\ tx2 = <<>>
    /\ packets = <<>>
    /\ channel = <<>>
    /\ replies = <<>>
    /\ sport_detail = None
    /\ heart_rate_state = None
    /\ stress_state = None
    /\ partial_big_data = None
    /\ overflow_checks \in BOOLEAN
    /\ panicked = FALSE
    /\ try_from_value = <<>>
    /\ try_from_result = None
    /\ rx = None
    /\ subscriptions = 0
    /\ client_call = None
    /\ stream = <<>>
    /\ poll_result = None
    /\ inner_pending = FALSE
    /\ events = None
    /\ database = <<>>

\* the stream hands the parser one UART frame
ReceiveUart == Len(packets) < MaxPackets /\ \E p \in UartFrames : handle_packet(p) /\ UNCHANGED pollVars

\* the stream hands the parser one frame of a heart-rate exchange
ReceiveHeartRate == Len(packets) < MaxHrPackets /\ \E p \in HrFrames : handle_packet(p) /\ UNCHANGED pollVars

\* the application sends one command
SendCommand == \E cmd \in Commands : Send(cmd)

Next == ReceiveUart

Spec == Init /\ [][Next]_vars

NextHeartRate == ReceiveHeartRate

SpecHeartRate == Init /\ [][NextHeartRate]_vars

NextSend == SendCommand

SpecSend == Init /\ [][NextSend]_vars

\* the calls an application makes on the reply stream of one Client
NextClient == Connect \/ Disconnect \/ ReadNext

SpecClient == Init /\ [][NextClient]_vars

----------------------------------------------------------------------------
(* Sport-detail exchanges and the record decoder on its own                 *)

\* [0x43, year, month, day, time_index, index, total, calories, steps, distance],
\* the date 2024-10-15 in BCD
SportRecordFrame(time_index, index, total, calories) ==
    make_packet(<<CMD_SYNC_ACTIVITY, 36, 16, 21, time_index, index, total,
                  calories % 256, calories \div 256, 21, 0, 16, 0>>)

\* the "no data" frame, the new-calorie prelude and record frames of batches of
\* one and two records, one of them with calories that do not fit a u16 once
\* multiplied by ten
SportTxFrames ==
    { make_packet(<<CMD_SYNC_ACTIVITY, 255>>),
      make_packet(<<CMD_SYNC_ACTIVITY, 240>>),
      SportRecordFrame(92, 0, 1, 121),
      SportRecordFrame(93, 0, 1, 6554),
      SportRecordFrame(94, 0, 2, 300),
      SportRecordFrame(95, 1, 2, 65535) }

\* the stream hands the parser one frame of a sport-detail exchange
ReceiveSportDetail ==
    Len(packets) < MaxSportPackets /\ \E p \in SportTxFrames : handle_packet(p) /\ UNCHANGED pollVars

NextSportDetail == ReceiveSportDetail

SpecSportDetail == Init /\ [][NextSportDetail]_vars

\* record slices of every length up to MaxSliceLen: BCD and non-BCD date bytes,
\* small and large little-endian fields
RecordSlices ==
    { SubSeq(<<year, 18, 49, time_index, 7, 9, 121, hi, 21, hi, 16, hi, 1, 2, 3, 4, 5>>, 1, n) :
        n \in 0..MaxSliceLen, year \in {0, 36, 153, 255}, time_index \in {0, 95},
        hi \in {0, 255} }

InitSportDetail ==
    /\ command = None
    /\ cmd_bytes = <<>>
    /\ encode_panicked = FALSE
    /\ tx = <<>>
    /\ tx2 = <<>>
    /\ packets = <<>>
    /\ channel = <<>>
    /\ replies = <<>>
    /\ sport_detail = None
    /\ heart_rate_state = None
    /\ stress_state = None
    /\ partial_big_data = None
    /\ overflow_checks \in BOOLEAN
    /\ panicked = FALSE
    /\ try_from_value \in RecordSlices
    /\ try_from_result = None
    /\ rx = None
    /\ subscriptions = 0
    /\ client_call = None
    /\ stream = <<>>
    /\ poll_result = None
    /\ inner_pending = FALSE
    /\ events = None
    /\ database = <<>>

\* SportDetail::try_from(value) is called on the slice
TryFromSlice ==
    /\ try_from_result = None
    /\ try_from_result' = SportDetail_try_from(try_from_value)
    /\ UNCHANGED try_from_value
    /\ UNCHANGED sendVars
    /\ UNCHANGED parseVars
    /\ UNCHANGED clientVars
    /\ UNCHANGED pollVars
    /\ UNCHANGED dbVars

NextTryFrom == TryFromSlice

SpecTryFrom == InitSportDetail /\ [][NextTryFrom]_vars

----------------------------------------------------------------------------
(* Stress exchanges *)

\* initial frames announcing 0..MaxStressTarget follow-on frames, the "no data"
\* frame, and data frames with their sequence number
StressInitFrames ==
    { make_packet(<<CMD_SYNC_STRESS, 0, target + 1, 30>>) : target \in 0..MaxStressTarget }

StressDataFrames ==
    { make_packet(<<CMD_SYNC_STRESS, seq>> \o Payload(20 * seq, 13)) :
        seq \in 1..MaxStressTarget }

StressNoDataFrames == { make_packet(<<CMD_SYNC_STRESS, 255>>) }

StressTxFrames == StressInitFrames \cup StressDataFrames \cup StressNoDataFrames

\* the stream hands the parser one frame of a stress exchange
ReceiveStress ==
    Len(packets) < MaxStressPackets /\ \E p \in StressTxFrames : handle_packet(p) /\ UNCHANGED pollVars

NextStress == ReceiveStress

SpecStress == Init /\ [][NextStress]_vars

----------------------------------------------------------------------------
(* Big-data exchanges on the V2 channel *)

\* [0xbc, kind, len_LE_u16, crc_LE_u16, payload...]
BigDataStart(kind, len, payload) ==
    <<CMD_BIG_DATA_V2, kind, len % 256, len \div 256, 202, 141>> \o payload

\* a sleep buffer of 9 bytes: days, then one day block days_ago, day_bytes = 6,
\* start 1380, end 420, one Light stage of 30 minutes
SleepBuffer(days, days_ago) == <<days, days_ago, 6, 100, 5, 164, 1, 2, 30>>

\* start frames carrying the whole sleep buffer, or its first four bytes
SleepStartFrames ==
    { BigDataStart(BIG_DATA_TYPE_SLEEP, 9, SubSeq(SleepBuffer(days, days_ago), 1, n)) :
        days \in {1, 2}, days_ago \in {1, 39}, n \in {4, 9} }

\* start frames of an oxygen buffer of 4 bytes: one day, days_ago, one (min, max)
OxygenStartFrames ==
    { BigDataStart(BIG_DATA_TYPE_SPO2, 4, <<1, days_ago, 95, 99>>) : days_ago \in {0, 42} }

\* continuation frames: the rest of the sleep buffer in one frame or in two, and
\* a last frame one byte too long
ContinuationFrames == { <<5, 164, 1, 2, 30>>, <<5, 164, 1>>, <<2, 30>>, <<2, 30, 0>> }

V2Frames == SleepStartFrames \cup OxygenStartFrames \cup ContinuationFrames

\* the stream hands the parser one V2 frame
ReceiveV2 == Len(packets) < MaxV2Packets /\ \E p \in V2Frames : handle_packet_v2(p) /\ UNCHANGED pollVars

NextBigData == ReceiveV2

SpecBigData == Init /\ [][NextBigData]_vars

----------------------------------------------------------------------------
(* The event store  (crates/fissure/src/lib.rs) *)

\* 2001-01-31 at a full hour, the DateTime of tests::no_data_loss
DateTime(hour) ==
    [year |-> 2001, month |-> 1, day |-> 31, hour |-> hour, minute |-> 0, second |-> 0]

\* events of two rings at two hours: two Stress readings and a HeartRate one
RingEvents ==
    { [mac |-> mac, when |-> DateTime(hour), value |-> value] :
        mac \in {"00:00:00:00:00:00", "00:00:00:00:00:02"},
        hour \in {0, 1},
        value \in { [variant |-> "Stress", data |-> 1], [variant |-> "Stress", data |-> 2],
                     [variant |-> "HeartRate", data |-> 1] } }

\* all slices of at most n events
RECURSIVE EventSlices(_)
EventSlices(n) ==
    IF n = 0 THEN { <<>> }
    ELSE EventSlices(n - 1)
         \cup { Append(e, event) : e \in { x \in EventSlices(n - 1) : Len(x) = n - 1 },
                                    event \in RingEvents }

Existing_AnyVariant(rows, event) ==
    LET found == { r \in 1..Len(rows) :
                     /\ rows[r].mac = event.mac
                     /\ rows[r].when = event.when }
    IN IF found = {} THEN 0 ELSE CHOOSE r \in found : \A q \in found : r <= q

\* the query of add_events: the first row, as the transaction sees the store,
\* with the event's mac, year-month-day, hour-minute-second and EventData
\* discriminant; 0 when there is none
Existing(rows, event) ==
    LET found == { r \in 1..Len(rows) :
                     /\ rows[r].mac = event.mac
                     /\ rows[r].when = event.when
                     /\ rows[r].value.variant = event.value.variant }
    IN IF found = {} THEN 0 ELSE CHOOSE r \in found : \A q \in found : r <= q

\* the loop of add_events over events i.. : update the existing row or insert
RECURSIVE add_events(_, _, _)
add_events(rows, evs, i) ==
    IF i > Len(evs) THEN rows
    ELSE add_events(IF Existing(rows, evs[i]) = 0
                      THEN Append(rows, evs[i])
                      ELSE [rows EXCEPT ![Existing(rows, evs[i])] = evs[i]],
                    evs, i + 1)

\* Database::add_events(events): the rows are committed together at the end;
\* when a storage call fails `?` returns before the commit and none is
AddEvents ==
    /\ events = None
    /\ \E evs \in EventSlices(MaxEvents), ok \in BOOLEAN :
          /\ events' = [slice |-> evs, result |-> IF ok THEN "Ok" ELSE "Err"]
          /\ database' = IF ok THEN add_events(database, evs, 1) ELSE database
    /\ UNCHANGED sendVars
    /\ UNCHANGED parseVars
    /\ UNCHANGED decodeVars
    /\ UNCHANGED clientVars
    /\ UNCHANGED pollVars

NextDatabase == AddEvents

SpecDatabase == Init /\ [][NextDatabase]_vars

----------------------------------------------------------------------------
(* Exchanges that overlap on the two channels *)

\* a heart-rate exchange (initial frame, date frame, last frame), the initial
\* and a data frame of a stress exchange, the sport-detail prelude with two
\* records of batches of one (the calories of the second do not fit a u16 once
\* multiplied by ten), and a battery reply
MixedUartFrames ==
    { make_packet(<<CMD_SYNC_HEART_RATE, 0, 3, 5>>),
      make_packet(<<CMD_SYNC_HEART_RATE, 1>> \o Payload(10, 13)),
      make_packet(<<CMD_SYNC_HEART_RATE, 2>> \o Payload(20, 13)),
      make_packet(<<CMD_SYNC_STRESS, 0, 1, 30>>),
      make_packet(<<CMD_SYNC_STRESS, 1>> \o Payload(20, 13)),
      make_packet(<<CMD_SYNC_ACTIVITY, 240>>),
      SportRecordFrame(92, 0, 1, 121),
      SportRecordFrame(93, 0, 1, 6554),
      make_packet(<<CMD_BATTERY, 50, 1>>) }

\* the start frame of a sleep buffer of 9 bytes and the frame that completes it
MixedV2Frames ==
    { BigDataStart(BIG_DATA_TYPE_SLEEP, 9, <<2, 39, 6, 100>>), <<5, 164, 1, 2, 30>> }

ReceiveMixedUart ==
    Len(packets) < MaxMixedPackets /\ \E p \in MixedUartFrames : handle_packet(p) /\ UNCHANGED pollVars

ReceiveMixedV2 ==
    Len(packets) < MaxMixedPackets /\ \E p \in MixedV2Frames : handle_packet_v2(p) /\ UNCHANGED pollVars

NextMixed == ReceiveMixedUart \/ ReceiveMixedV2

SpecMixed == Init /\ [][NextMixed]_vars

----------------------------------------------------------------------------
(* The reply stream polled by its consumer *)

\* RawPacket items: the three frames of a heart-rate exchange and a battery
\* reply on the UART channel, the two frames of a sleep exchange on V2
RawPackets ==
    { [channel |-> "Uart", frame |-> f] :
        f \in { make_packet(<<CMD_SYNC_HEART_RATE, 0, 3, 5>>),
                 make_packet(<<CMD_SYNC_HEART_RATE, 1>> \o Payload(10, 13)),
                 make_packet(<<CMD_SYNC_HEART_RATE, 2>> \o Payload(20, 13)),
                 make_packet(<<CMD_BATTERY, 50, 1>>) } }
    \cup { [channel |-> "V2", frame |-> f] :
              f \in { BigDataStart(BIG_DATA_TYPE_SLEEP, 9, <<2, 39, 6, 100>>),
                       <<5, 164, 1, 2, 30>> } }

\* the ring notifies a frame: the merged stream holds one more item ready
Notify ==
    /\ ~panicked
    /\ Len(stream) + Len(packets) < MaxNotified
    /\ \E p \in RawPackets : stream' = Append(stream, p)
    /\ UNCHANGED <<poll_result, inner_pending>>
    /\ UNCHANGED sendVars
    /\ UNCHANGED parseVars
    /\ UNCHANGED decodeVars
    /\ UNCHANGED clientVars
    /\ UNCHANGED dbVars

\* ClientReceiver::poll_next: Pending when the inner stream is Pending; else
\* the item is handed to the parser and the call returns Ready with the reply,
\* or Pending when the parser returned None
poll_next ==
    IF stream = <<>>
      THEN /\ ~panicked
           /\ poll_result' = [tag |-> "Pending"]
           /\ inner_pending' = TRUE
           /\ UNCHANGED stream
           /\ UNCHANGED sendVars
           /\ UNCHANGED parseVars
           /\ UNCHANGED decodeVars
           /\ UNCHANGED clientVars
           /\ UNCHANGED dbVars
      ELSE /\ IF Head(stream).channel = "Uart"
                THEN handle_packet(Head(stream).frame)
                ELSE handle_packet_v2(Head(stream).frame)
           /\ stream' = Tail(stream)
           /\ inner_pending' = FALSE
           /\ poll_result' = IF panicked' THEN Panic
                              ELSE IF replies'[Len(replies')] # None
                                THEN [tag |-> "Ready", reply |-> replies'[Len(replies')]]
                              ELSE [tag |-> "Pending"]

NextPoll == Notify \/ poll_next

SpecPoll == Init /\ [][NextPoll]_vars

----------------------------------------------------------------------------
(* The sleep decoder on its own *)

\* all sequences of at most n stage codes
RECURSIVE StageCodeSeqs(_)
StageCodeSeqs(n) ==
    IF n = 0 THEN { <<>> }
    ELSE StageCodeSeqs(n - 1)
         \cup { Append(c, code) : c \in { x \in StageCodeSeqs(n - 1) : Len(x) = n - 1 },
                                   code \in {0, SLEEP_TYPE_LIGHT, SLEEP_TYPE_AWAKE, 9} }

\* the (stage, minutes) pairs of a code sequence: pair q lasts 10 q + code minutes
RECURSIVE StagePairs(_, _)
StagePairs(codes, q) ==
    IF q > Len(codes) THEN <<>>
    ELSE <<codes[q], 10 * q + codes[q]>> \o StagePairs(codes, q + 1)

\* [days_ago, day_bytes, start_LE_u16, end_LE_u16, (stage, minutes) x k]
DayBlock(days_ago, start, end, codes) ==
    <<days_ago, 4 + 2 * Len(codes), start % 256, start \div 256, end % 256, end \div 256>>
    \o StagePairs(codes, 1)

\* first blocks: today, yesterday and two days ago; a night across midnight, a
\* nap after midnight, a start past the end of the day, equal start and end,
\* the first and the last minute of a day
FirstDayBlocks ==
    { DayBlock(days_ago, se[1], se[2], codes) :
        days_ago \in {0, 1, 2}, se \in { <<1380, 420>>, <<60, 420>>, <<1500, 100>>, <<420, 420>>, <<0, 0>>,
                                     <<1439, 0>>, <<0, 1439>> },
        codes \in StageCodeSeqs(MaxStagePairs) }

SecondDayBlocks == { <<>>, DayBlock(1, 1320, 390, <<SLEEP_TYPE_DEEP>>),
                     DayBlock(3, 30, 45, <<SLEEP_TYPE_REM, SLEEP_TYPE_LIGHT>>) }

\* buffers [days, blocks]: as many blocks as days, or one block less
SleepBuffers ==
    { <<days>> \o b1 \o b2 :
        b1 \in FirstDayBlocks, b2 \in SecondDayBlocks, days \in {1, 2, 3} }

InitSleepData ==
    /\ command = None
    /\ cmd_bytes = <<>>
    /\ encode_panicked = FALSE
    /\ tx = <<>>
    /\ tx2 = <<>>
    /\ packets = <<>>
    /\ channel = <<>>
    /\ replies = <<>>
    /\ sport_detail = None
    /\ heart_rate_state = None
    /\ stress_state = None
    /\ partial_big_data = None
    /\ overflow_checks \in BOOLEAN
    /\ panicked = FALSE
    /\ try_from_value \in SleepBuffers
    /\ try_from_result = None
    /\ rx = None
    /\ subscriptions = 0
    /\ client_call = None
    /\ stream = <<>>
    /\ poll_result = None
    /\ inner_pending = FALSE
    /\ events = None
    /\ database = <<>>

\* SleepData::try_from(BigDataPacket::Sleep(data)) is called on the buffer
TryFromSleep ==
    /\ try_from_result = None
    /\ try_from_result' = SleepData_try_from([tag |-> "Sleep", data |-> try_from_value])
    /\ UNCHANGED try_from_value
    /\ UNCHANGED sendVars
    /\ UNCHANGED parseVars
    /\ UNCHANGED clientVars
    /\ UNCHANGED pollVars
    /\ UNCHANGED dbVars

NextSleepData == TryFromSleep

SpecSleepData == InitSleepData /\ [][NextSleepData]_vars

----------------------------------------------------------------------------
(* The oxygen decoder on its own *)

\* [days_ago, (min, max) x n]: hour q reads min 90 + q % 5 and max 95 + q % 5
OxygenDay(days_ago, n) ==
    <<days_ago>> \o [k \in 1..(2 * n) |-> 90 + 5 * ((k + 1) % 2) + (((k + 1) \div 2) % 5)]

\* no day, a day of 0..MaxOxygenPairs hours, a whole day, a day cut inside a pair
FirstOxygenDays ==
    { <<>> } \cup { OxygenDay(days_ago, n) :
                      days_ago \in {0, 1, 3}, n \in (0..MaxOxygenPairs) \cup {HoursPerDay} }
             \cup { Append(OxygenDay(1, 1), 91) }

SecondOxygenDays == { <<>>, OxygenDay(1, 1), OxygenDay(2, HoursPerDay) }

\* buffers [days, days_ago + pairs per day]
OxygenBuffers ==
    { <<days>> \o d1 \o d2 :
        d1 \in FirstOxygenDays, d2 \in SecondOxygenDays, days \in 0..3 }
    \cup { <<>> }

InitOxygenData ==
    /\ command = None
    /\ cmd_bytes = <<>>
    /\ encode_panicked = FALSE
    /\ tx = <<>>
    /\ tx2 = <<>>
    /\ packets = <<>>
    /\ channel = <<>>
    /\ replies = <<>>
    /\ sport_detail = None
    /\ heart_rate_state = None
    /\ stress_state = None
    /\ partial_big_data = None
    /\ overflow_checks \in BOOLEAN
    /\ panicked = FALSE
    /\ try_from_value \in OxygenBuffers
    /\ try_from_result = None
    /\ rx = None
    /\ subscriptions = 0
    /\ client_call = None
    /\ stream = <<>>
    /\ poll_result = None
    /\ inner_pending = FALSE
    /\ events = None
    /\ database = <<>>

\* OxygenData::try_from(BigDataPacket::Oxygen(data)) is called on the buffer
TryFromOxygen ==
    /\ try_from_result = None
    /\ try_from_result' = OxygenData_try_from([tag |-> "Oxygen", data |-> try_from_value])
    /\ UNCHANGED try_from_value
    /\ UNCHANGED sendVars
    /\ UNCHANGED parseVars
    /\ UNCHANGED clientVars
    /\ UNCHANGED pollVars
    /\ UNCHANGED dbVars

NextOxygenData == TryFromOxygen

SpecOxygenData == InitOxygenData /\ [][NextOxygenData]_vars

----------------------------------------------------------------------------
(* Big-data transactions whose buffer cannot be decoded *)

\* one-frame sleep transactions whose only day block has a stage code 9, or
\* declares two pairs and carries one, or has day_bytes 3, or day_bytes 7; and
\* the well-formed buffers
BadSleepFrames ==
    { BigDataStart(BIG_DATA_TYPE_SLEEP, Len(b), b) :
        b \in UNION { { <<days, 39, 6, 100, 5, 164, 1, 9, 30>>,
                        <<days, 39, 8, 100, 5, 164, 1, 2, 30>>,
                        <<days, 39, 3, 100, 5, 164, 1, 2, 30>>,
                        <<days, 39, 7, 100, 5, 164, 1, 2, 30, 2, 10>>,
                        SleepBuffer(days, 39) } : days \in {1, 2} } }

ReceiveBadSleep ==
    Len(packets) < MaxV2Packets /\ \E p \in BadSleepFrames : handle_packet_v2(p) /\ UNCHANGED pollVars

NextBadSleep == ReceiveBadSleep

SpecBadSleep == Init /\ [][NextBadSleep]_vars

----------------------------------------------------------------------------
(* Frames shorter than their opcode requires, on both channels *)

\* the first n bytes of a frame, n = 0..MaxShortLen
Prefixes(frames) == { SubSeq(f, 1, n) : f \in frames, n \in 0..MaxShortLen }

\* prefixes of a battery, a real-time, a heart-rate, a stress and a sport-detail
\* frame; the whole frames; and the heart-rate frames without their last byte
ShortUartFrames ==
    LET whole == { make_packet(<<CMD_BATTERY, 50, 1>>),
                   make_packet(<<CMD_MANUAL_HEART_RATE, 1, 0, 72>>),
                   make_packet(<<CMD_SYNC_HEART_RATE, 0, 2, 5>>),
                   make_packet(<<CMD_SYNC_HEART_RATE, 1>> \o Payload(10, 13)),
                   make_packet(<<CMD_SYNC_STRESS, 0, 2, 30>>),
                   make_packet(<<CMD_SYNC_STRESS, 1>> \o Payload(20, 13)),
                   SportRecordFrame(94, 0, 2, 300) }
    IN Prefixes(whole) \cup whole
       \cup { SubSeq(f, 1, 15) : f \in { w \in whole : w[1] = CMD_SYNC_HEART_RATE } }

\* prefixes of a big-data start frame, up to the whole header, and the frame
ShortV2Frames ==
    LET whole == BigDataStart(BIG_DATA_TYPE_SLEEP, 9, SleepBuffer(2, 39))
    IN Prefixes({whole}) \cup { SubSeq(whole, 1, 5), SubSeq(whole, 1, 6), whole }

ReceiveShortUart ==
    Len(packets) < MaxShortPackets /\ \E p \in ShortUartFrames : handle_packet(p) /\ UNCHANGED pollVars

ReceiveShortV2 ==
    Len(packets) < MaxShortPackets /\ \E p \in ShortV2Frames : handle_packet_v2(p) /\ UNCHANGED pollVars

NextShort == ReceiveShortUart \/ ReceiveShortV2

SpecShort == Init /\ [][NextShort]_vars

----------------------------------------------------------------------------
(* Claims about the command encoder and Client::send  (SpecSend)            *)

Range(s) == { s[i] : i \in 1..Len(s) }

Written == Range(tx) \cup Range(tx2)

\* C1: every encoded frame is exactly 16 bytes long and its byte 15 equals the
\* sum of its bytes 0..=14 modulo 256, for every command, Raw vectors of any
\* length included.
C1_FrameLengthAndChecksum ==
    /\ command # None =>
          /\ ~encode_panicked
          /\ Len(cmd_bytes) = 16
          /\ cmd_bytes[16] = SumBytes(SubSeq(cmd_bytes, 1, 15)) % 256
    /\ \A f \in Written :
          Len(f) = 16 /\ f[16] = SumBytes(SubSeq(f, 1, 15)) % 256

\* a Raw vector longer than 16 bytes whose first 15 bytes sum past 255 was written
C1_Witness ==
    /\ command.tag = "Raw"
    /\ Len(command.bytes) > 16
    /\ SumBytes(SubSeq(cmd_bytes, 1, 15)) > 255
    /\ cmd_bytes \in Written

\* C2 (as claimed): byte 1 of a SetTime frame is (year of when) mod 100, and
\* bytes 2..7 are month, day, hour, minute, second, language.
C2_SetTimeYearMod100 ==
    command.tag = "SetTime" =>
        /\ cmd_bytes[2] = command.when.year % 100
        /\ SubSeq(cmd_bytes, 3, 8) = <<command.when.month, command.when.day,
                                       command.when.hour, command.when.minute,
                                       command.when.second, command.language>>

\* the command table of the encoder: the bytes a variant names, the rest zero
Pad15(prefix) == prefix \o Zeroes(15 - Len(prefix))

TableLayout(cmd) ==
    CASE cmd.tag = "ReadSportDetail" -> Pad15(<<67, cmd.day_offset, 15, 0, 95, 1>>)
      [] cmd.tag = "ReadStress" -> Pad15(<<55, cmd.day_offset>>)
      [] cmd.tag = "GetHeartRateSettings" -> Pad15(<<22, 1>>)
      [] cmd.tag = "SetHeartRateSettings" ->
            Pad15(<<22, 2, IF cmd.enabled THEN 1 ELSE 2, cmd.interval>>)
      [] cmd.tag = "StartRealTimeHeartRate" -> Pad15(<<105, 1>>)
      [] cmd.tag = "ContinueRealTimeHeartRate" -> Pad15(<<30, 3>>)
      [] cmd.tag = "StopRealTimeHeartRate" -> Pad15(<<106, 1>>)
      [] cmd.tag = "StartSpo2" -> Pad15(<<105, 3, 37>>)
      [] cmd.tag = "StopSpo2" -> Pad15(<<106, 3>>)
      [] cmd.tag = "Reboot" -> Pad15(<<8, 1>>)
      [] cmd.tag = "BlinkTwice" -> Pad15(<<16>>)
      [] cmd.tag = "BatteryInfo" -> Pad15(<<3>>)

TableKinds == {"ReadSportDetail", "ReadStress", "GetHeartRateSettings",
               "SetHeartRateSettings", "StartRealTimeHeartRate",
               "ContinueRealTimeHeartRate", "StopRealTimeHeartRate", "StartSpo2",
               "StopSpo2", "Reboot", "BlinkTwice", "BatteryInfo"}

\* C3: for the fixed-layout commands, bytes 0..=14 of the frame are the layout
\* of the command table and every byte the layout does not name is zero;
\* ReadHeartRate carries its timestamp little-endian in bytes 1..=4.
C3_FixedLayouts ==
    /\ command.tag \in TableKinds => SubSeq(cmd_bytes, 1, 15) = TableLayout(command)
    /\ command.tag = "ReadHeartRate" =>
          /\ cmd_bytes[1] = 21
          /\ \A i \in 2..5 : cmd_bytes[i] \in 0..255
          /\ cmd_bytes[2] + 256 * cmd_bytes[3] + 65536 * cmd_bytes[4]
                + 16777216 * cmd_bytes[5] = command.timestamp
          /\ \A i \in 6..15 : cmd_bytes[i] = 0

\* SetHeartRateSettings{enabled: false, interval: 255} was written
C3_Witness ==
    /\ command.tag = "SetHeartRateSettings"
    /\ ~command.enabled
    /\ command.interval = 255
    /\ cmd_bytes \in Range(tx)

\* the first 15 bytes of two vectors agree (as far as either reaches)
SameFirst15(a, b) ==
    /\ (Len(a) >= 15 /\ Len(b) >= 15) \/ Len(a) = Len(b)
    /\ \A i \in 1..15 : (i <= Len(a) /\ i <= Len(b)) => a[i] = b[i]

\* C4: encoding Raw(b) never fails; bytes 0..=14 of the frame are the first 15
\* bytes of b, zero-padded on the right; the bytes of b at index 15 and beyond
\* change no byte of the frame.
C4_RawEncoding ==
    command.tag = "Raw" =>
        /\ ~encode_panicked
        /\ Len(cmd_bytes) = 16
        /\ \A i \in 1..15 :
              cmd_bytes[i] = IF i <= Len(command.bytes) THEN command.bytes[i] ELSE 0
        /\ \A b \in RawVecs :
              SameFirst15(b, command.bytes) =>
                  from([tag |-> "Raw", bytes |-> b]).bytes = cmd_bytes

\* a Raw vector longer than 16 bytes with a nonzero byte at index 15 was written
C4_Witness ==
    /\ command.tag = "Raw"
    /\ Len(command.bytes) > 16
    /\ command.bytes[16] > 0
    /\ cmd_bytes \in Written

\* C5 (as claimed): a send writes its frame exactly once, to the V2 command
\* characteristic when byte 0 of the frame is 0xbc or 0x73 and to the UART RX
\* characteristic for every other byte 0; the other characteristic is not written.
C5_RouteByOpcode ==
    [][ command' # command \/ cmd_bytes' # cmd_bytes \/ tx' # tx \/ tx2' # tx2 =>
          IF cmd_bytes'[1] \in {CMD_BIG_DATA_V2, CMD_NOTIFICATION}
            THEN tx2' = Append(tx2, cmd_bytes') /\ tx' = tx
            ELSE tx' = Append(tx, cmd_bytes') /\ tx2' = tx2 ]_vars

----------------------------------------------------------------------------
(* Claims about the packet parser  (Spec, SpecHeartRate)                    *)

UnknownReply(p) == [tag |-> "Unknown", bytes |-> p]

RealTimeReply(kind, v) == [tag |-> "RealTimeData", ev |-> [tag |-> kind, value |-> v]]

\* the opcodes of the UART dispatch table
DispatchTable == {1, 3, 8, 16, 21, 22, 55, 67, 105, 106}

\* C6: a 16-byte UART frame gets exactly one reply at once, chosen by byte 0:
\* 0x01 SetTime, 0x08 Reboot, 0x10 BlinkTwice, 0x6a StopRealTime, 0x03
\* BatteryInfo{level = b1, charging = b2 > 0}, 0x16 with b2 in {1,2}
\* HeartRateSettings{enabled = (b2 = 1), interval = b3}; opcode 0x16 with another
\* b2, and every opcode outside the dispatch table, gives Unknown with the
\* frame's bytes unchanged.
C6_SingleFrameDispatch ==
    \A k \in 1..Len(packets) :
        LET p == packets[k]
            r == replies[k]
        IN /\ p[1] = 1 => r = [tag |-> "SetTime"]
           /\ p[1] = 8 => r = [tag |-> "Reboot"]
           /\ p[1] = 16 => r = [tag |-> "BlinkTwice"]
           /\ p[1] = 106 => r = [tag |-> "StopRealTime"]
           /\ p[1] = 3 => r = [tag |-> "BatteryInfo", level |-> p[2], charging |-> (p[3] > 0)]
           /\ (p[1] = 22 /\ p[3] \in {1, 2}) =>
                 r = [tag |-> "HeartRateSettings", enabled |-> (p[3] = 1), interval |-> p[4]]
           /\ (p[1] = 22 /\ p[3] \notin {1, 2}) => r = UnknownReply(p)
           /\ p[1] \notin DispatchTable => r = UnknownReply(p)

\* a 0x16 frame with b2 = 3 was answered Unknown while a heart-rate transaction
\* was partial
C6_Witness ==
    /\ Len(packets) = 2
    /\ packets[2][1] = 22
    /\ packets[2][3] = 3
    /\ replies[2] = UnknownReply(packets[2])
    /\ heart_rate_state # None

\* C7 (as claimed): for a frame [0x69, mode, status, value, ...]: status # 0 gives
\* Error(status); status = 0 and mode = 1 gives HeartRate(value); status = 0 and
\* mode = 3 gives Oxygen(value); status = 0 with any other mode is surfaced as
\* Unknown, not as a heart-rate or oxygen sample.
C7_RealTimeModes ==
    \A k \in 1..Len(packets) :
        LET p == packets[k]
            r == replies[k]
        IN p[1] = 105 =>
             /\ p[3] # 0 => r = RealTimeReply("Error", p[3])
             /\ (p[3] = 0 /\ p[2] = 1) => r = RealTimeReply("HeartRate", p[4])
             /\ (p[3] = 0 /\ p[2] = 3) => r = RealTimeReply("Oxygen", p[4])
             /\ (p[3] = 0 /\ p[2] \notin {1, 3}) => r.tag = "Unknown"

\* HeartRate{range: 0, rates: [], date: Unix epoch}
EmptyHeartRate ==
    [tag |-> "HeartRate", range |-> 0, rates |-> <<>>, date |-> FromUnixTimestamp(0)]

\* this step handled one more frame
Handled == Len(packets') = Len(packets) + 1

\* C8 (as claimed): with no heart-rate transaction active, an initial frame
\* [0x15, seq = 0, size, range, ...] whose size byte (byte 2) is 0xff is answered
\* at once with HeartRate{range: 0, rates: [], date: epoch} and leaves no
\* heart-rate partial state behind.
C8_SizeByteFastPath ==
    [][ ( /\ Handled
          /\ heart_rate_state = None
          /\ packets'[Len(packets')][1] = 21
          /\ packets'[Len(packets')][2] = 0
          /\ packets'[Len(packets')][3] = 255 )
        => ( /\ replies'[Len(replies')] = EmptyHeartRate
             /\ heart_rate_state' = None ) ]_vars

\* C8 (amended): with no heart-rate transaction active, a heart-rate frame whose
\* byte 1 is 0xff is answered at once with HeartRate{range: 0, rates: [], date:
\* epoch} and leaves no heart-rate partial state behind.
C8_Byte1FastPath ==
    [][ ( /\ Handled
          /\ heart_rate_state = None
          /\ packets'[Len(packets')][1] = 21
          /\ packets'[Len(packets')][2] = 255 )
        => ( /\ replies'[Len(replies')] = EmptyHeartRate
             /\ heart_rate_state' = None ) ]_vars

\* an idle parser answered a [0x15, 0xff, ...] frame, its second frame, with the
\* empty HeartRate
C8_Witness ==
    /\ Len(packets) = 2
    /\ packets[1][1] # 21
    /\ packets[2][1] = 21
    /\ packets[2][2] = 255
    /\ packets[2][3] # 255
    /\ replies[2] = EmptyHeartRate
    /\ heart_rate_state = None

\* the positions, from k on, of the heart-rate frames handled so far
RECURSIVE HrIndicesFrom(_)
HrIndicesFrom(k) ==
    IF k > Len(packets) THEN <<>>
    ELSE IF packets[k][1] = 21 THEN <<k>> \o HrIndicesFrom(k + 1)
    ELSE HrIndicesFrom(k + 1)

\* bytes [2..15] of the frames at positions idx[lo], ..., idx[hi]
RECURSIVE LaterRates(_, _, _)
LaterRates(idx, lo, hi) ==
    IF lo > hi THEN <<>>
    ELSE SubSeq(packets[idx[lo]], 3, 15) \o LaterRates(idx, lo + 1, hi)

\* C9 (as claimed): a transaction of recorded size n >= 1 (initial frame
\* [0x15, 0, n + 1, range] on an idle parser) followed by the frames seq = 1..n in
\* order is answered by nothing before the frame seq = n and by exactly one
\* HeartRate on that frame: range from the initial frame, date the little-endian
\* u32 of bytes [2..6] of the seq-1 frame, rates bytes [6..15] of the seq-1 frame
\* then bytes [2..15] of each later frame; n = 1 included.
C9_CompletesOnLastFrame ==
    \A i \in 1..Len(packets), n \in 1..(MaxHrSize + 1) :
        LET idx == HrIndicesFrom(i) IN
        ( /\ \A j \in 1..(i - 1) : packets[j][1] # 21
          /\ packets[i][1] = 21
          /\ packets[i][2] = 0
          /\ packets[i][3] = n + 1
          /\ Len(idx) >= n + 1
          /\ \A q \in 1..n : packets[idx[q + 1]][2] = q )
        => ( /\ \A q \in 1..n : replies[idx[q]] = None
             /\ replies[idx[n + 1]] =
                   [tag |-> "HeartRate",
                    range |-> packets[i][4],
                    date |-> FromUnixTimestamp(
                                packets[idx[2]][3] + 256 * packets[idx[2]][4]
                                + 65536 * packets[idx[2]][5]
                                + 16777216 * packets[idx[2]][6]),
                    rates |-> SubSeq(packets[idx[2]], 7, 15)
                              \o LaterRates(idx, 3, n + 1)] )

\* the seq byte of the heart-rate frame handled last: while the slot is partial,
\* that frame is the one accepted last
LastHrSeq ==
    LET hr == { k \in 1..Len(packets) : packets[k][1] = 21 } IN
    packets[CHOOSE k \in hr : \A j \in hr : j <= k][2]

\* C10 (as claimed): while a heart-rate transaction is partial, a frame with
\* seq = 0, a second frame with seq = 1, and a frame whose seq is lower than the
\* seq of the frame accepted before it each drop the partial state, and no reply
\* is emitted.
C10_BadSeqDropsState ==
    [][ ( /\ Handled
          /\ heart_rate_state # None
          /\ packets'[Len(packets')][1] = 21
          /\ \/ packets'[Len(packets')][2] = 0
             \/ (packets'[Len(packets')][2] = 1 /\ heart_rate_state.tag = "Recieving")
             \/ packets'[Len(packets')][2] < LastHrSeq )
        => ( /\ heart_rate_state' = None
             /\ replies'[Len(replies')] = None ) ]_vars

----------------------------------------------------------------------------
(* Claims about sport-detail exchanges  (SpecSportDetail, SpecTryFrom)      *)

\* the frame this step handled and what handle_packet returned for it
LastPacket == packets'[Len(packets')]

LastReply == replies'[Len(replies')]

\* C11 (as claimed): with no sport-detail transaction active, the UART frame
\* [0x43, 0xff, 0, ...] is answered on that frame with SportDetail([]) and leaves
\* the sport-detail slot empty, so that the next transaction is parsed from its
\* own first frame.
C11_NoDataEmitsEmpty ==
    [][ ( /\ Handled
          /\ sport_detail = None
          /\ LastPacket[1] = 67
          /\ LastPacket[2] = 255 )
        => ( /\ LastReply = [tag |-> "SportDetail", packets |-> <<>>]
             /\ sport_detail' = None ) ]_vars

\* frames i+1 .. i+k are the record frames index 0 .. k-1 of one batch of k
IsBatch(i, k) ==
    /\ i + k <= Len(packets)
    /\ \A j \in 1..k :
          /\ packets[i + j][1] = 67
          /\ packets[i + j][2] \notin {240, 255}
          /\ packets[i + j][6] = j - 1
          /\ packets[i + j][7] = k

\* the raw little-endian u16 calories field of a record frame
RawCalories(p) == p[8] + 256 * p[9]

\* C12 (as claimed): in a SportDetail reply emitted for a transaction that began
\* with the prelude frame (b1 = 0xf0), record j has calories ten times the raw
\* u16 calories field of its frame, for every raw value and whatever sport-detail
\* frames preceded the prelude.
C12_NewCaloriesTimesTen ==
    \A i \in 1..Len(packets), k \in 1..MaxSportPackets :
        ( /\ packets[i][1] = 67
          /\ packets[i][2] = 240
          /\ IsBatch(i, k)
          /\ replies[i + k].tag = "SportDetail" )
        => ( /\ Len(replies[i + k].packets) = k
             /\ \A j \in 1..k :
                   replies[i + k].packets[j].calories = 10 * RawCalories(packets[i + j]) )

\* C13 (as claimed): a transaction completes, and its SportDetail reply is
\* emitted, on the frame whose record has index = total - 1, whether that frame
\* continues a transaction or is the initial frame of the old protocol (no
\* prelude): a batch of one record without prelude is answered on its only frame.
C13_CompletesOnLastIndex ==
    [][ ( /\ Handled
          /\ sport_detail = None \/ sport_detail.tag \in {"Initial", "Recieving"}
          /\ LastPacket[1] = 67
          /\ LastPacket[2] \notin {240, 255}
          /\ LastPacket[7] >= 1
          /\ LastPacket[6] = LastPacket[7] - 1 )
        => ( /\ LastReply.tag = "SportDetail"
             /\ sport_detail' = None ) ]_vars

\* BCD(b) = (b >> 4) * 10 + (b & 0x0f)
Bcd(b) == (b \div 16) * 10 + (b % 16)

\* C14: a slice of at least 12 bytes decodes to year = 2000 + BCD(byte 0),
\* month = BCD(byte 1), day = BCD(byte 2), time_index = byte 3, and calories,
\* steps, distance = the little-endian u16 at bytes [6..8], [8..10], [10..12];
\* a slice shorter than 12 bytes is rejected with an error.
C14_RecordDecoding ==
    try_from_result # None =>
        LET v == try_from_value
            r == try_from_result
        IN IF Len(v) < 12 THEN r = Err
           ELSE /\ r.tag = "SportDetail"
                /\ r.year = 2000 + Bcd(v[1])
                /\ r.month = Bcd(v[2])
                /\ r.day = Bcd(v[3])
                /\ r.time_index = v[4]
                /\ r.calories = v[7] + 256 * v[8]
                /\ r.steps = v[9] + 256 * v[10]
                /\ r.distance = v[11] + 256 * v[12]

\* a slice of exactly 12 bytes with BCD year byte 0x99 and a calories field
\* above 255 was decoded
C14_Witness ==
    /\ Len(try_from_value) = 12
    /\ try_from_value[1] = 153
    /\ try_from_result # None
    /\ try_from_result.tag = "SportDetail"
    /\ try_from_result.year = 2099
    /\ try_from_result.calories > 255

----------------------------------------------------------------------------
(* Claims about stress exchanges  (SpecStress)                              *)

\* bytes [2..15] of the frames at positions lo..hi
RECURSIVE StressTail(_, _)
StressTail(lo, hi) ==
    IF lo > hi THEN <<>> ELSE SubSeq(packets[lo], 3, 15) \o StressTail(lo + 1, hi)

\* C15 (as claimed): an initial frame [0x37, 0, length, interval] on an idle
\* parser with target = length - 1 >= 1, followed by the frames seq = 1..target
\* in order, is answered by nothing before the frame seq = target and by one
\* Stress reply on that frame: interval from the initial frame, measurements
\* bytes [3..15] of the seq-1 frame then bytes [2..15] of every later frame;
\* target = 1 included.
C15_StressCompletesOnTarget ==
    \A target \in 1..MaxStressTarget :
        ( /\ Len(packets) >= target + 1
          /\ packets[1][1] = 55
          /\ packets[1][2] = 0
          /\ packets[1][3] = target + 1
          /\ \A q \in 1..target : packets[q + 1][1] = 55 /\ packets[q + 1][2] = q )
        => ( /\ \A q \in 1..target : replies[q] = None
             /\ replies[target + 1] =
                   [tag |-> "Stress",
                    time_interval_sec |-> packets[1][4],
                    measurements |-> SubSeq(packets[2], 4, 15)
                                     \o StressTail(3, target + 1)] )

\* C16 (as claimed): with no stress transaction active, a stress frame whose
\* byte 1 is 0xff is answered on that frame with Stress{measurements: [],
\* interval: 0} and leaves the stress slot empty for the next transaction.
C16_StressNoDataEmitsEmpty ==
    [][ ( /\ Handled
          /\ stress_state = None
          /\ LastPacket[1] = 55
          /\ LastPacket[2] = 255 )
        => ( /\ LastReply = [tag |-> "Stress", time_interval_sec |-> 0,
                             measurements |-> <<>>]
             /\ stress_state' = None ) ]_vars

\* C17 (as claimed): an initial frame [0x37, 0, 1, interval] (zero follow-on
\* frames) on an idle parser is answered on that same frame with
\* Stress{measurements: [], interval}.
C17_StressZeroFollowOns ==
    [][ ( /\ Handled
          /\ stress_state = None
          /\ LastPacket[1] = 55
          /\ LastPacket[2] = 0
          /\ LastPacket[3] = 1 )
        => LastReply = [tag |-> "Stress", time_interval_sec |-> LastPacket[4],
                        measurements |-> <<>>] ]_vars

----------------------------------------------------------------------------
(* Claims about big-data exchanges  (SpecBigData)                           *)

\* the length declared in bytes [2..4] of a start frame
Declared(p) == p[3] + 256 * p[4]

\* the payload accumulated from the start frame at j up to the frame at i: the
\* start frame from byte 6 on, then every later frame whole
RECURSIVE Accumulated(_, _)
Accumulated(j, i) ==
    IF i = j THEN SubSeq(packets[j], 7, Len(packets[j]))
    ELSE Accumulated(j, i - 1) \o packets[i]

\* the frames j..i are V2 frames and the frame at j is a big-data start frame
StartsAt(j, i) ==
    /\ \A m \in j..i : channel[m] = "V2"
    /\ Len(packets[j]) >= 6
    /\ packets[j][1] = 188

\* C18: a Sleep or Oxygen reply is emitted only when the payload accumulated
\* since a start frame has exactly the length declared in bytes [2..4] of that
\* start frame, no reply having been emitted in between; never from a shorter or
\* a longer buffer.
C18_EmitOnlyAtDeclaredLength ==
    \A i \in 1..Len(replies) :
        replies[i].tag \in {"Sleep", "Oxygen"} =>
            \E j \in 1..i :
                /\ StartsAt(j, i)
                /\ \A m \in j..(i - 1) : replies[m] = None
                /\ Len(Accumulated(j, i)) = Declared(packets[j])

\* a Sleep reply with one session was emitted on the third frame of a
\* transaction, when the 4 + 3 + 2 payload bytes reached the declared 9
C18_Witness ==
    /\ Len(packets) = 3
    /\ Len(packets[1]) = 10
    /\ Len(packets[2]) = 3
    /\ Len(Accumulated(1, 3)) = 9
    /\ Declared(packets[1]) = 9
    /\ replies[3].tag = "Sleep"
    /\ Len(replies[3].data.sessions) = 1

\* the frames 1..n are one big-data transaction of the given kind on an idle
\* parser: a start frame, then continuation frames, the payload reaching the
\* declared length exactly at frame n
IsBigDataTx(kind, n) ==
    /\ n <= Len(packets)
    /\ StartsAt(1, n)
    /\ packets[1][2] = kind
    /\ \A m \in 2..n : packets[m] # <<>> /\ packets[m][1] # 188
    /\ \A m \in 1..(n - 1) : Len(Accumulated(1, m)) < Declared(packets[1])
    /\ Len(Accumulated(1, n)) = Declared(packets[1])

\* day blocks [days_ago, day_bytes, start_LE_u16, end_LE_u16, (stage, minutes) x k]
\* with day_bytes = 4 + 2k and stage codes in {0, 2, 3, 4, 5}
ValidStages(b) == \A q \in 1..(Len(b) \div 2) : b[2 * q - 1] \in {0, 2, 3, 4, 5}

RECURSIVE ValidDayBlocks(_, _)
ValidDayBlocks(b, days) ==
    IF days = 0 THEN b = <<>>
    ELSE /\ Len(b) >= 6
         /\ b[2] >= 4
         /\ b[2] % 2 = 0
         /\ Len(b) >= 2 + b[2]
         /\ ValidStages(SubSeq(b, 7, 2 + b[2]))
         /\ ValidDayBlocks(SubSeq(b, 3 + b[2], Len(b)), days - 1)

\* the buffer layout [days, day_block x days]
ValidSleepBuffer(b) == Len(b) >= 1 /\ ValidDayBlocks(Tail(b), b[1])

\* C19 (as claimed): a sleep transaction (kind 0x27) whose payload totals exactly
\* the declared length and forms a valid sleep buffer is answered by one Sleep
\* reply, on the frame that brings the accumulated length to the declared
\* length, and by nothing on the earlier frames.
C19_SleepEmittedOnce ==
    \A n \in 1..Len(packets) :
        ( IsBigDataTx(39, n) /\ ValidSleepBuffer(Accumulated(1, n)) )
        => ( /\ replies[n].tag = "Sleep"
             /\ \A m \in 1..(n - 1) : replies[m] = None )

\* C20 (as claimed): an oxygen transaction (kind 0x2a) whose payload totals
\* exactly the declared length is answered by one Oxygen reply, on the frame
\* that completes it: not Unknown, not Sleep, not nothing.
C20_OxygenEmitted ==
    \A n \in 1..Len(packets) :
        IsBigDataTx(42, n)
        => ( /\ replies[n].tag = "Oxygen"
             /\ \A m \in 1..(n - 1) : replies[m] = None )

----------------------------------------------------------------------------
(* Claims about frames that arrive while a transaction is partial           *)

\* the state a fresh reassembly started from start frame p is in while its
\* payload has not reached the declared length
FreshPartial(p) ==
    [tag |-> "Partial",
     target_length |-> Declared(p),
     packet |-> [tag |-> IF p[2] = 39 THEN "Sleep" ELSE "Oxygen",
                 data |-> SubSeq(p, 7, Len(p))]]

\* C21 (as claimed): a V2 frame whose byte 0 is 0xbc that arrives while a
\* big-data reassembly is partial discards the old buffer and starts a fresh
\* reassembly from that frame: kind from byte 1, declared length from bytes
\* [2..4], payload from byte 6 on, none of the old bytes kept.
C21_RestartOnNewStart ==
    [][ ( /\ Handled
          /\ channel'[Len(channel')] = "V2"
          /\ partial_big_data # None
          /\ Len(LastPacket) >= 6
          /\ LastPacket[1] = 188
          /\ LastPacket[2] \in {39, 42} )
        => IF Len(LastPacket) - 6 = Declared(LastPacket)
             THEN partial_big_data' = None
             ELSE partial_big_data' = FreshPartial(LastPacket) ]_vars

\* C22 (as claimed): a heart-rate initial frame [0x15, 0, size + 1, range] that
\* arrives while an earlier heart-rate transaction is partial discards the old
\* state and starts a fresh transaction: the slot then waits for the frames
\* seq = 1..size of the new transaction.
C22_HeartRateRestart ==
    [][ ( /\ Handled
          /\ heart_rate_state # None
          /\ LastPacket[1] = 21
          /\ LastPacket[2] = 0
          /\ LastPacket[3] \in 2..254 )
        => heart_rate_state' = [tag |-> "Length", size |-> LastPacket[3] - 1,
                                range |-> LastPacket[4]] ]_vars

\* C23 (as claimed): a V2 frame whose byte 0 is not 0xbc is appended to the
\* buffer when a reassembly is in progress, and is answered with Unknown
\* carrying the frame's bytes when none is.
C23_ContinuationOrUnknown ==
    [][ ( /\ Handled
          /\ channel'[Len(channel')] = "V2"
          /\ LastPacket # <<>>
          /\ LastPacket[1] # 188 )
        => IF partial_big_data # None
             THEN IF partial_big_data' # None
                    THEN partial_big_data'.packet.data
                           = partial_big_data.packet.data \o LastPacket
                    ELSE Len(partial_big_data.packet.data) + Len(LastPacket)
                           = partial_big_data.target_length
             ELSE /\ LastReply = [tag |-> "Unknown", bytes |-> LastPacket]
                  /\ partial_big_data' = None ]_vars

----------------------------------------------------------------------------
(* Claims about malformed input  (SpecShort)                                *)

\* C24 (as claimed): handling an inbound frame of any length, on either channel
\* and in any parser state, does not panic: a frame shorter than its opcode
\* requires is dropped and the parser goes on with the next frame.
C24_ShortFramesDropped ==
    [][ Handled => ~panicked' ]_vars

\* C25 (as claimed): when a completed sleep buffer cannot be decoded (a stage
\* code outside {0, 2, 3, 4, 5}, a buffer shorter than its day blocks declare,
\* a day_bytes below 4 or odd), the parser emits no reply for the transaction,
\* does not panic and leaves partial_big_data empty for the next transaction.
C25_UndecodableDropped ==
    [][ ( /\ Handled
          /\ channel'[Len(channel')] = "V2"
          /\ partial_big_data = None
          /\ Len(LastPacket) >= 6
          /\ LastPacket[1] = 188
          /\ LastPacket[2] = 39
          /\ Len(LastPacket) - 6 = Declared(LastPacket)
          /\ ~ValidSleepBuffer(SubSeq(LastPacket, 7, Len(LastPacket))) )
        => ( /\ LastReply = None
             /\ ~panicked'
             /\ partial_big_data' = None ) ]_vars

----------------------------------------------------------------------------
(* Claims about the sleep decoder                                           *)

\* the day blocks of a buffer body laid out as day_block x n, in order
RECURSIVE DayBlocksOf(_)
DayBlocksOf(b) ==
    IF Len(b) < 6 \/ b[2] < 4 \/ Len(b) < 2 + b[2] THEN <<>>
    ELSE <<SubSeq(b, 1, 2 + b[2])>> \o DayBlocksOf(SubSeq(b, 3 + b[2], Len(b)))

StartMin(blk) == blk[3] + 256 * blk[4]
EndMin(blk) == blk[5] + 256 * blk[6]

\* the stages the pairs of a day block stand for: code 0 adds none
RECURSIVE StagesOf(_, _)
StagesOf(blk, q) ==
    IF 6 + 2 * q > Len(blk) THEN <<>>
    ELSE ( IF blk[5 + 2 * q] = 0 THEN <<>>
           ELSE << [tag |-> CASE blk[5 + 2 * q] = 2 -> "Light"
                              [] blk[5 + 2 * q] = 3 -> "Deep"
                              [] blk[5 + 2 * q] = 4 -> "Rem"
                              [] blk[5 + 2 * q] = 5 -> "Awake",
                    minutes |-> blk[6 + 2 * q]] >> )
         \o StagesOf(blk, q + 1)

\* every block lies at least one day back and starts and ends within a day
MinutesOfDay(b) ==
    \A q \in 1..Len(DayBlocksOf(b)) :
        LET blk == DayBlocksOf(b)[q]
        IN blk[1] >= 1 /\ StartMin(blk) <= 1439 /\ EndMin(blk) <= 1439

\* C26 (as claimed): for a well-formed sleep buffer [days, day_block x days]
\* (blocks at least one day back, minutes within a day) the decoder returns
\* exactly `days` sessions, session q carrying the stages of block q.
C26_OneSessionPerDay ==
    ( /\ try_from_result # None
      /\ ValidSleepBuffer(try_from_value)
      /\ MinutesOfDay(Tail(try_from_value)) )
    => ( /\ try_from_result.tag = "SleepData"
         /\ Len(try_from_result.sessions) = try_from_value[1]
         /\ \A q \in 1..try_from_value[1] :
               try_from_result.sessions[q].stages
                 = StagesOf(DayBlocksOf(Tail(try_from_value))[q], 1) )

\* C27 (as claimed): for a well-formed sleep buffer whose blocks start and end
\* within a day, days_ago == 0 included, the decoder returns sessions, and every
\* session it returns for a block ends at midnight(today - days_ago) + end_min
\* and starts at midnight(today - days_ago) - (1440 - start_min) when
\* start_min > end_min, at midnight(today - days_ago - 1) + start_min otherwise
\* (minutes from the midnight that begins today).
C27_SessionTimes ==
    ( /\ try_from_result # None
      /\ ValidSleepBuffer(try_from_value)
      /\ \A q \in 1..Len(DayBlocksOf(Tail(try_from_value))) :
            LET blk == DayBlocksOf(Tail(try_from_value))[q]
            IN StartMin(blk) <= 1439 /\ EndMin(blk) <= 1439 )
    => ( /\ try_from_result.tag = "SleepData"
         /\ \A q \in 1..Len(try_from_result.sessions) :
               LET blk == DayBlocksOf(Tail(try_from_value))[q]
                   midnight == (0 - blk[1]) * 1440
                   session == try_from_result.sessions[q]
               IN /\ session.end = midnight + EndMin(blk)
                  /\ session.start = IF StartMin(blk) > EndMin(blk)
                                       THEN midnight - (1440 - StartMin(blk))
                                       ELSE midnight - 1440 + StartMin(blk) )

----------------------------------------------------------------------------
(* Claims about the oxygen decoder                                          *)

\* the days present in a buffer body: days_ago and then at most 24 pairs
RECURSIVE OxygenDaysOf(_)
OxygenDaysOf(b) ==
    IF b = <<>> THEN <<>>
    ELSE LET n == IF (Len(b) - 1) \div 2 > 24 THEN 24 ELSE (Len(b) - 1) \div 2
         IN <<SubSeq(b, 1, 1 + 2 * n)>> \o OxygenDaysOf(SubSeq(b, 2 + 2 * n, Len(b)))

\* the measurements of a buffer [days, days present]: pair j of a day is dated
\* midnight(today - days_ago) + j hours
RECURSIVE OxygenSamplesFrom(_, _)
OxygenSamplesFrom(days, d) ==
    IF d > Len(days) THEN <<>>
    ELSE [j \in 1..((Len(days[d]) - 1) \div 2) |->
             [min |-> days[d][2 * j], max |-> days[d][2 * j + 1],
              when |-> (0 - days[d][1]) * 1440 + 60 * (j - 1)]]
         \o OxygenSamplesFrom(days, d + 1)

OxygenSamplesOf(b) == OxygenSamplesFrom(OxygenDaysOf(Tail(b)), 1)

\* at least one day is present, every day present holds at least one whole
\* pair and the buffer ends on a pair boundary
OnPairBoundary(b) ==
    /\ Len(OxygenDaysOf(Tail(b))) >= 1
    /\ Len(b) = 1 + Len(OxygenDaysOf(Tail(b))) + 2 * Len(OxygenSamplesOf(b))
    /\ \A d \in 1..Len(OxygenDaysOf(Tail(b))) : Len(OxygenDaysOf(Tail(b))[d]) >= 3

\* C29 (as claimed): an oxygen buffer [days, per day: days_ago and (min, max)
\* pairs] that ends on a pair boundary, declaring at least the days present,
\* decodes to one measurement per pair present, in order, pair j of a day
\* dated midnight(today - days_ago) + j hours, whatever `days` declares.
C29_OneMeasurementPerPair ==
    ( /\ try_from_result # None
      /\ Len(try_from_value) >= 1
      /\ OnPairBoundary(try_from_value)
      /\ try_from_value[1] >= Len(OxygenDaysOf(Tail(try_from_value))) )
    => ( /\ try_from_result.tag = "OxygenData"
         /\ try_from_result.samples = OxygenSamplesOf(try_from_value) )

----------------------------------------------------------------------------
(* Claims about overlapping exchanges                                       *)

\* the family frame k belongs to
Family(k) ==
    IF channel[k] = "V2" THEN "big_data"
    ELSE CASE packets[k][1] = CMD_SYNC_HEART_RATE -> "heart_rate"
           [] packets[k][1] = CMD_SYNC_STRESS -> "stress"
           [] packets[k][1] = CMD_SYNC_ACTIVITY -> "sport_detail"
           [] OTHER -> "single"

\* a parser that has seen nothing
Idle == [sport_detail |-> None, heart_rate_state |-> None, stress_state |-> None,
         partial_big_data |-> None]

\* what a parser in state s answers to frame k, and the state it is left in
Answer(s, k) ==
    IF channel[k] = "V2"
      THEN LET r == handle_v2(s.partial_big_data, packets[k])
           IN [state |-> [s EXCEPT !.partial_big_data = r.slot], reply |-> r.reply]
      ELSE IF IndexPanics(s.sport_detail, s.heart_rate_state, s.stress_state, packets[k])
        THEN [state |-> s, reply |-> None]
        ELSE LET r == handle_uart(s.sport_detail, s.heart_rate_state, s.stress_state,
                                  packets[k])
             IN [state |-> [s EXCEPT !.sport_detail = r.sport_detail,
                                     !.heart_rate_state = r.heart_rate_state,
                                     !.stress_state = r.stress_state],
                 reply |-> r.reply]

\* the replies to the frames of family f, from frame k on, are those of a
\* parser in state s that is handed the frames of family f alone
RECURSIVE SameAsBackToBack(_, _, _)
SameAsBackToBack(f, k, s) ==
    IF k > Len(packets) THEN TRUE
    ELSE IF Family(k) # f THEN SameAsBackToBack(f, k + 1, s)
    ELSE /\ replies[k] = Answer(s, k).reply
         /\ SameAsBackToBack(f, k + 1, Answer(s, k).state)

----------------------------------------------------------------------------
(* Claims about the client's reply stream                                   *)

\* C31 (as claimed): the read_next that follows a successful disconnect
\* returns the end of the stream and does not subscribe again.
C31_DisconnectEndsStream ==
    [][ ( /\ client_call = [op |-> "disconnect", result |-> "Ok"]
          /\ client_call' # client_call
          /\ client_call'.op = "read_next" )
        => ( /\ client_call'.result = "EndOfStream"
             /\ subscriptions' = subscriptions
             /\ rx' = None ) ]_vars

----------------------------------------------------------------------------
(* Claims about the event store                                             *)

\* no two events of the slice share mac, date-time and value variant
DistinctTriples(evs) ==
    \A i, j \in 1..Len(evs) :
        ( /\ evs[i].mac = evs[j].mac
          /\ evs[i].when = evs[j].when
          /\ evs[i].value.variant = evs[j].value.variant ) => i = j

\* C32: after add_events(E) has returned Ok on an empty database, the events
\* of E having pairwise distinct (mac, date-time, variant) triples, the
\* committed rows are exactly the events of E, one row each, none overwritten.
C32_NoDataLoss ==
    ( /\ events # None
      /\ events.result = "Ok"
      /\ DistinctTriples(events.slice) )
    => ( /\ Len(database) = Len(events.slice)
         /\ \A i \in 1..Len(events.slice) : database[i] = events.slice[i] )

\* a Stress and a HeartRate event of one ring at one hour are both stored
C32_Witness ==
    /\ events # None
    /\ events.result = "Ok"
    /\ Len(events.slice) = 2
    /\ events.slice[1].mac = events.slice[2].mac
    /\ events.slice[1].when = events.slice[2].when
    /\ events.slice[1].value.variant # events.slice[2].value.variant
    /\ database = events.slice

----------------------------------------------------------------------------
(* Claims about faults inside the UART exchanges                            *)

\* C33 (as claimed): while a sport-detail batch is being received, a record
\* frame whose total byte differs from the total of the batch's previous
\* frame is an error: nothing is emitted and the partial state is discarded.
C33_TotalMustNotChange ==
    [][ ( /\ Handled
          /\ sport_detail.tag = "Recieving"
          /\ packets[Len(packets)][1] = 67
          /\ packets[Len(packets)][2] \notin {240, 255}
          /\ LastPacket[1] = 67
          /\ LastPacket[2] \notin {240, 255}
          /\ LastPacket[7] # packets[Len(packets)][7] )
        => ( /\ LastReply = None
             /\ sport_detail' = None ) ]_vars

\* C34 (as claimed): a stress initial frame whose length byte (byte 2) is 0 on
\* an idle parser, and a sport-detail continuation frame whose total byte
\* (byte 6) is 0, are protocol faults: no panic, nothing emitted, and the
\* family's slot left empty (no state built from a wrapped 255).
C34_NoUnderflow ==
    [][ /\ ( /\ Handled
              /\ stress_state = None
              /\ LastPacket[1] = 55
              /\ LastPacket[2] = 0
              /\ LastPacket[3] = 0 )
           => ( ~panicked' /\ LastReply = None /\ stress_state' = None )
        /\ ( /\ Handled
              /\ sport_detail.tag \in {"Initial", "Recieving"}
              /\ LastPacket[1] = 67
              /\ LastPacket[7] = 0 )
           => ( ~panicked' /\ LastReply = None /\ sport_detail' = None ) ]_vars

\* C35 (as claimed): after handle_packet has returned, none of the four slots
\* holds a Complete state.
C35_NoCompleteParked ==
    /\ sport_detail.tag # "Complete"
    /\ heart_rate_state.tag # "Complete"
    /\ stress_state.tag # "Complete"
    /\ partial_big_data.tag # "Complete"

----------------------------------------------------------------------------
(* Claims about the progress of a reassembly                                *)

\* C36 (as claimed): while partial_big_data is Partial, the accumulated
\* payload is strictly shorter than the declared target_length.
C36_PartialBelowTarget ==
    partial_big_data.tag = "Partial"
    => Len(partial_big_data.packet.data) < partial_big_data.target_length

\* C37 (as claimed): a HeartRate reply emitted on a data frame with seq = n,
\* n >= 2 being the recorded size, carries exactly 9 + 13 (n - 1) samples:
\* the 9 of the date frame and 13 for each of the frames 2..n, once each.
C37_ExactSampleCount ==
    \A k \in 1..Len(replies) :
        ( /\ replies[k].tag = "HeartRate"
          /\ packets[k][1] = 21
          /\ packets[k][2] >= 2
          /\ packets[k][2] # 255 )
        => Len(replies[k].rates) = 9 + 13 * (packets[k][2] - 1)

\* C38 (as claimed): poll_next returns Pending only in a call in which the
\* inner stream returned Pending, the call that registers the wake-up.
C38_PendingOnlyWhenInnerPending ==
    ( poll_result # None /\ poll_result.tag = "Pending" ) => inner_pending

----------------------------------------------------------------------------
(* Claims about the sessions and the slots                                  *)

\* C39: every session the sleep decoder returns for a block whose start_min
\* and end_min lie in 0..1439 starts strictly before it ends.
C39_StartBeforeEnd ==
    ( try_from_result # None /\ try_from_result.tag = "SleepData" )
    => \A q \in 1..Len(try_from_result.sessions) :
          LET blk == DayBlocksOf(Tail(try_from_value))[q]
          IN ( StartMin(blk) <= 1439 /\ EndMin(blk) <= 1439 )
             => try_from_result.sessions[q].start < try_from_result.sessions[q].end

\* a session is returned for a block whose start_min equals its end_min
C39_Witness ==
    /\ try_from_result # None
    /\ try_from_result.tag = "SleepData"
    /\ Len(try_from_result.sessions) >= 1
    /\ StartMin(DayBlocksOf(Tail(try_from_value))[1])
         = EndMin(DayBlocksOf(Tail(try_from_value))[1])
    /\ try_from_result.sessions[1].end - try_from_result.sessions[1].start = 1440

\* C40: handling a frame changes at most the slot of the frame's own family:
\* a UART frame leaves partial_big_data alone, a V2 frame leaves the three UART
\* slots alone, a frame of opcode 0x15, 0x37 or 0x43 changes only the
\* heart-rate, the stress or the sport-detail slot, and a frame of any other
\* UART opcode changes no slot.
C40_OwnSlotOnly ==
    [][ ( Handled /\ Len(LastPacket) >= 1 ) =>
        LET uart == channel'[Len(channel')] = "Uart"
            op == LastPacket[1]
        IN /\ uart => partial_big_data' = partial_big_data
           /\ ~uart => UNCHANGED <<sport_detail, heart_rate_state, stress_state>>
           /\ ( uart /\ op # CMD_SYNC_HEART_RATE ) => heart_rate_state' = heart_rate_state
           /\ ( uart /\ op # CMD_SYNC_STRESS ) => stress_state' = stress_state
           /\ ( uart /\ op # CMD_SYNC_ACTIVITY ) => sport_detail' = sport_detail ]_vars

\* frames of pairwise different families, a big-data frame and a single-frame
\* reply that is not the first among them: every exchange that was opened still
\* sits in its own slot
C40_Witness ==
    /\ Len(packets) = MaxMixedPackets
    /\ \E k \in 1..Len(packets) : Family(k) = "single" /\ k > 1
    /\ \E k \in 1..Len(packets) : Family(k) = "big_data"
    /\ Cardinality({ Family(k) : k \in 1..Len(packets) }) = MaxMixedPackets
    /\ Cardinality({ v \in {"sd", "hr", "st", "bd"} :
                       CASE v = "sd" -> sport_detail # None
                         [] v = "hr" -> heart_rate_state # None
                         [] v = "st" -> stress_state # None
                         [] OTHER -> partial_big_data # None }) = MaxMixedPackets - 1

====
